---- MODULE Spec2Model ----
(***************************************************************************)
(* Model of the MCP security proxy (mcp_security_proxy/intermediate.py):   *)
(* the policy store (SecurityConfig + tool_usage_counts), the              *)
(* administrative handlers that mutate it, the dispatcher, the passthrough *)
(* and tools/list handlers, and the tools/call pipeline (security gate ->  *)
(* argument sanitization -> upstream call -> injection detector ->         *)
(* response).                                                              *)
(*                                                                         *)
(* Requests are asyncio coroutines on one event loop: a handler runs       *)
(* without interruption between two awaits that really suspend (the read   *)
(* of the inbound body and the upstream HTTP call), so each such block is  *)
(* one action.                                                             *)
(***************************************************************************)
EXTENDS Integers, Sequences, FiniteSets

\* ------------------------------------------------------------------ bounds
NumReqs == 2       \* request slots (requests in flight at the same time)
MaxEvents == 3     \* requests received, administrative operations and clock
                   \* steps in one behaviour
MaxRapid == 7      \* requests received and clock steps in one behaviour of the
                   \* specification without administrative operations
MaxTicks == 2      \* steps of the clock in one behaviour
TickStep == 30     \* seconds the clock advances in one step
MaxProxy == 3      \* requests received and administrative operations in one
                   \* behaviour of the specification of the whole dispatcher
MaxText == 2       \* phrases in a text handed to the detector
MaxLive == 2       \* requests received and administrative operations in one
                   \* behaviour of the specification with fair scheduling

\* ------------------------------------------------------- program constants
DefaultCap == 60   \* 'calls_per_minute': 60
Window == 60       \* now - last_reset >= 60
PrefixLen == 4     \* response_string[22:], counted in tokens of the frame
threshold == 80    \* PromptSanitizer threshold=0.8, in hundredths
RuleHit == 90      \* "confidence": 0.9 of a rule-based match, in hundredths
RuleMiss == 10     \* "confidence": 0.1 of a rule-based miss, in hundredths

\* ------------------------------------------------------------ input sets
ToolNames == {"t1", "t2"}
Catalog == <<"t1", "t2">>
ProbeNames == ToolNames \cup {"t3"}   \* "t3": a name no catalog tool has
NoId == <<>>                      \* a JSON-RPC message without "id"
Reqs == 1..NumReqs
RateInputs == {-1, 0, 1}          \* 0 stands for a missing rate_limit too
GateCaps == {1, 2, 3}
UpStatuses == {200, 500}
Verdicts == {"clean", "injection", "raise"}
NoMethod == ""                    \* a JSON object without "method"
Methods == {"initialize", "tools/list", "tools/call", "ping", NoMethod}

VARIABLES
    blocked_tools,      \* SecurityConfig.blocked_tools
    allowed_tools,      \* SecurityConfig.allowed_tools
    rate_limits,        \* SecurityConfig.rate_limits (entries made on first access)
    tool_usage_counts,  \* MCPProxyMiddleware.tool_usage_counts
    session,            \* MCPProxyMiddleware.session is set
    available_tools,    \* MCPProxyMiddleware.available_tools (names)
    target_server_url,  \* MCPProxyMiddleware.target_server_url
    now,                \* time.time()
    reqs,               \* the request coroutines, one per slot
    last,               \* what the last completed request did and returned
    nevents,            \* requests received, admin operations and clock steps so far
    recent,             \* per tool: admission times within the last Window seconds
    probe,              \* result of the last direct evaluation of is_tool_allowed
    detection,          \* PromptSanitizer: its classifier and its last call of check
    admin               \* the result the last administrative endpoint returned

vars == <<blocked_tools, allowed_tools, rate_limits, tool_usage_counts, session,
          available_tools, target_server_url, now, reqs, last, nevents, recent, probe, detection, admin>>

policy == <<blocked_tools, allowed_tools, rate_limits>>

\* ---------------------------------------------------- streaming envelope
\* A body is a run of literal text tokens, one JSON text, and a run of
\* literal tokens after it; utf8 tells whether bytes.decode() succeeds.
EV == "event: message"
CR == "\r"
LF == "\n"
DATA == "data: "
Whitespace == {CR, LF}

ToolResult == [content |-> <<[type |-> "text", text |-> "tool output"]>>, isError |-> FALSE]
NoResult == [content |-> <<>>, isError |-> FALSE]

\* json.dumps / json.loads
json_dumps(obj) == [wellformed |-> TRUE, value |-> obj]
NotJson == [wellformed |-> FALSE, value |-> [id |-> NoId, result |-> NoResult, detail |-> ""]]

RpcResult(id, result) == [id |-> id, result |-> result, detail |-> ""]

Frame(head, text, tail) == [head |-> head, payload |-> text, tail |-> tail, utf8 |-> TRUE]

\* str.startswith
StartsWith(s, p) == Len(s) >= Len(p) /\ SubSeq(s, 1, Len(p)) = p

\* the frame prefix the injection path expects: 'event: message\r\ndata: '
ExpectedPrefix == <<EV, CR, LF, DATA>>

\* response_string.startswith('event: message\r\ndata: ')
HasExpectedPrefix(body) == StartsWith(body.head, ExpectedPrefix)

\* json.loads(response_string[22:]): the text after the prefix must be one
\* JSON value with nothing but whitespace around it
LoadsAfterPrefix(body) ==
    LET rest == SubSeq(body.head, PrefixLen + 1, Len(body.head))
    IN  IF /\ \A i \in 1..Len(rest) : rest[i] \in Whitespace
           /\ \A i \in 1..Len(body.tail) : body.tail[i] \in Whitespace
           /\ body.payload.wellformed
        THEN [ok |-> TRUE, value |-> body.payload.value]
        ELSE [ok |-> FALSE, value |-> NotJson.value]

\* bodies the upstream server may answer a tools/call with
UpstreamBodies(id) ==
    { Frame(<<EV, CR, LF, DATA>>, json_dumps(RpcResult(id, ToolResult)), <<CR, LF, CR, LF>>),
      Frame(<<EV, LF, DATA>>, json_dumps(RpcResult(id, ToolResult)), <<CR, LF, CR, LF>>),
      Frame(<<EV, CR, LF, DATA>>, json_dumps(RpcResult(NoId, ToolResult)), <<CR, LF, CR, LF>>),
      Frame(<<EV, CR, LF, DATA>>, NotJson, <<>>),
      [Frame(<<>>, NotJson, <<>>) EXCEPT !.utf8 = FALSE] }

\* raise HTTPException(status_code, detail): the JSON body FastAPI sends
ErrorBody(detail) ==
    Frame(<<>>, json_dumps([id |-> NoId, result |-> NoResult, detail |-> detail]), <<>>)

HttpError(status, detail) == [status |-> status, body |-> ErrorBody(detail), headers |-> {}]

\* --------------------------------------------------------- argument trees
\* A JSON value: kind is "obj", "arr", "str", "num" or "null"; a string is a
\* run of text tokens; an object's kids are its (key, value) pairs in order,
\* an array's kids are its elements (key "").
Str(text) == [kind |-> "str", text |-> text, kids |-> <<>>]
Num == [kind |-> "num", text |-> <<>>, kids |-> <<>>]
Null == [kind |-> "null", text |-> <<>>, kids |-> <<>>]
Obj(kids) == [kind |-> "obj", text |-> <<>>, kids |-> kids]
Arr(items) == [kind |-> "arr", text |-> <<>>,
               kids |-> [i \in DOMAIN items |-> [key |-> "", val |-> items[i]]]]
KV(key, val) == [key |-> key, val |-> val]

BLOCKED == "[BLOCKED]"

\* SecurityConfig.dangerous_patterns, in order
dangerous_patterns ==
    <<"eval\\s*\\(", "exec\\s*\\(", "__import__", "subprocess", "os\\.system", "shell=True">>

\* the text tokens each pattern matches under re.IGNORECASE
Matches(pattern) ==
    CASE pattern = "eval\\s*\\(" -> {"eval(", "EVAL ("}
      [] pattern = "exec\\s*\\(" -> {"exec("}
      [] pattern = "__import__" -> {"__import__"}
      [] pattern = "subprocess" -> {"subprocess", "SubProcess"}
      [] pattern = "os\\.system" -> {"os.system", "OS.System"}
      [] pattern = "shell=True" -> {"shell=True"}

\* re.sub(pattern, "[BLOCKED]", value, flags=re.IGNORECASE)
re_sub(pattern, value) ==
    [i \in DOMAIN value |-> IF value[i] \in Matches(pattern) THEN BLOCKED ELSE value[i]]

\* for pattern in dangerous_patterns: value = re.sub(...), from pattern n on
RECURSIVE SubFrom(_, _)
SubFrom(n, value) ==
    IF n > Len(dangerous_patterns) THEN value
    ELSE SubFrom(n + 1, re_sub(dangerous_patterns[n], value))

\* sanitize_input(args) for a dict args: string values are substituted, dict
\* values recurse, of a list value only the dict items recurse, every other
\* value is kept
RECURSIVE sanitize_input(_)
sanitize_input(args) ==
    [args EXCEPT !.kids =
        [i \in DOMAIN args.kids |->
            LET value == args.kids[i].val
            IN  KV(args.kids[i].key,
                   IF value.kind = "str" THEN
                       [value EXCEPT !.text = SubFrom(1, value.text)]
                   ELSE IF value.kind = "obj" THEN
                       sanitize_input(value)
                   ELSE IF value.kind = "arr" THEN
                       [value EXCEPT !.kids =
                           [j \in DOMAIN value.kids |->
                               IF value.kids[j].val.kind = "obj"
                               THEN KV("", sanitize_input(value.kids[j].val))
                               ELSE value.kids[j]]]
                   ELSE value)]]

\* args.items() exists: sanitize_input raises AttributeError otherwise
HasItems(args) == args.kind = "obj"

\* argument values of the tools/call requests
Danger == Str(<<"os.system", "('rm -rf /')">>)
Shout == Str(<<"ls; ", "EVAL (", "1)">>)
Harmless == Str(<<"ls">>)
EmptyArgs == Obj(<<>>)
ArgTrees ==
    { EmptyArgs,
      Obj(<<KV("cmd", Danger)>>),
      Obj(<<KV("cmd", Harmless), KV("n", Num)>>),
      Obj(<<KV("opts", Obj(<<KV("cmd", Shout), KV("n", Num)>>))>>),
      Obj(<<KV("cmds", Arr(<<Danger, Harmless>>))>>),
      Obj(<<KV("steps", Arr(<<Obj(<<KV("cmd", Danger)>>), Num>>))>>),
      Obj(<<KV("grid", Arr(<<Arr(<<Shout>>)>>))>>),
      Arr(<<Danger>>),
      Danger,
      Null }

\* -------------------------------------------------------------- upstream URL
\* A URL or path is a run of tokens, "/" being one of them.
SLASH == "/"

\* str.rstrip('/') and str.lstrip('/')
RECURSIVE rstrip(_)
rstrip(s) ==
    IF s # <<>> /\ s[Len(s)] = SLASH THEN rstrip(SubSeq(s, 1, Len(s) - 1)) ELSE s

RECURSIVE lstrip(_)
lstrip(s) ==
    IF s # <<>> /\ s[1] = SLASH THEN lstrip(Tail(s)) ELSE s

\* the path handed to a handler when the dispatcher passes None; `if path:`
\* takes None and '' alike
NoPath == <<>>

\* base_url = target_server_url.rstrip('/'); target_url = base_url + '/' +
\* path.lstrip('/') if path else base_url
target_url(base, path) ==
    LET base_url == rstrip(base)
    IN  IF path # NoPath THEN base_url \o <<SLASH>> \o lstrip(path) ELSE base_url

\* the target server URL the proxy is started with
BaseUrl == <<"http://up", SLASH>>
Bases == {<<"http://up">>, <<"http://up", SLASH>>, <<"http://up", SLASH, SLASH>>}
Paths == {<<>>, <<SLASH>>, <<"mcp">>, <<SLASH, "mcp">>, <<SLASH, SLASH, "mcp">>,
          <<"mcp", SLASH>>}

\* ----------------------------------------------------------------- headers
\* Response headers as the set of their names as sent on the wire.
\* str.lower() of a header name
Lower(name) ==
    CASE name \in {"Location", "LOCATION", "location"} -> "location"
      [] name \in {"X-Up", "x-up"} -> "x-up"
      [] OTHER -> name

headers_dict_raw_case(headers) == headers

\* dict(response.headers): httpx.Headers iterates its names in lower case
headers_dict(headers) == {Lower(name) : name \in headers}

\* response_headers = dict(response.headers); pop('location'); pop('Location')
response_headers(headers) == (headers_dict(headers) \ {"location"}) \ {"Location"}

PlainHeaders == {"content-type"}
UpHeaderSets == {PlainHeaders, {"content-type", "Location"}, {"LOCATION", "X-Up"},
                 {"content-type", "location", "x-up"}}
NoHeaders == {}

\* ----------------------------------------------------------- inbound bodies
\* The body of a POST /mcp/...: json tells what request.json() gives ("object",
\* "array", "scalar", or "notjson" when it raises); for an object, its
\* "method", "id", whether "params" is there, and params' "name" and
\* "arguments" (hasargs: the key is there).
InBody(json, method, id, params, name, hasargs, args) ==
    [json |-> json, method |-> method, id |-> id, params |-> params, name |-> name,
     hasargs |-> hasargs, args |-> args]

ToolCall(id, name, hasargs, args) == InBody("object", "tools/call", id, TRUE, name, hasargs, args)
Plain(json, method, id) == InBody(json, method, id, FALSE, "", FALSE, EmptyArgs)

\* ---------------------------------------------------------- request slots
NoName == ""                      \* a request body without "tool_name"
NoBody == Frame(<<>>, NotJson, <<>>)
TransportError == [arrived |-> FALSE, status |-> 0, body |-> NoBody, headers |-> NoHeaders]

\* JSON-RPC id of the request in slot r (requests in flight have distinct ids)
RequestId(r) == <<r>>

\* the body of no request
NoRequest == Plain("notjson", NoMethod, NoId)

\* a request coroutine: where it is (pc), its inbound body and path, the tool
\* and id of the body, what the security gate decided for it, the handler the
\* dispatcher chose (route), and the locals of that handler: tool_args, and
\* the url and content of the upstream request it has issued
Idle == [pc |-> "idle", tool |-> NoName, id |-> NoId, gate |-> "none",
         body |-> NoRequest, path |-> NoPath, route |-> "none",
         tool_args |-> Null, url |-> <<>>, content |-> NoRequest, attempts |-> 0,
         seen |-> {}]

\* a completed request: its inbound body and path, its tool and id, the
\* handler that served it (route), the gate's decision, whether client.request
\* was issued (sent), how many times (attempts), with which url and content,
\* and what it gave (up), the values of the blocked and allowed sets it read (seen),
\* whether the detector was asked, on which text and with which verdict, and
\* the status, body and headers returned to the client
NoLast == [tool |-> NoName, id |-> NoId, gate |-> "none", status |-> 0, body |-> NoBody,
           sent |-> FALSE, up |-> TransportError, asked |-> FALSE, text |-> NoBody,
           verdict |-> "none", inbound |-> NoRequest, path |-> NoPath, route |-> "none",
           url |-> <<>>, content |-> NoRequest, headers |-> NoHeaders, attempts |-> 0,
           seen |-> {}]

\* The response of a handler is written to its client before the event loop
\* runs the next handler block. No handler reads `last`, so this order loses
\* no behaviour of the program's own state.
Delivered == last = NoLast

\* ------------------------------------------------------------ policy store
AdminNames == ToolNames \cup {NoName}

\* defaultdict factory of SecurityConfig.rate_limits
DefaultLimit(t_now) ==
    [calls_per_minute |-> DefaultCap, last_reset |-> t_now, call_count |-> 0]

\* self.security_config.rate_limits[tool_name]: the entry, made on first access
Limit(t) == IF t \in DOMAIN rate_limits THEN rate_limits[t] ELSE DefaultLimit(now)

\* rate_limits with the entry of t set to e
WithLimit_one_window(t, e) == [u \in (DOMAIN rate_limits) \cup {t} |-> e]

WithLimit(t, e) == [u \in (DOMAIN rate_limits) \cup {t} |-> IF u = t THEN e ELSE rate_limits[u]]

\* is_tool_allowed, on given sets
is_allowed_in_blocked_first(tool_name, blocked, allowed) ==
    IF allowed # {} /\ tool_name \in allowed THEN TRUE
    ELSE IF tool_name \in blocked THEN FALSE
    ELSE allowed = {}

is_allowed_in(tool_name, blocked, allowed) ==
    IF tool_name \in blocked THEN FALSE
    ELSE IF allowed # {} /\ tool_name \notin allowed THEN FALSE
    ELSE TRUE

is_tool_allowed(tool_name) == is_allowed_in(tool_name, blocked_tools, allowed_tools)

\* check_rate_limit on entry tl at time t_now: the verdict and the entry it leaves
check_rate_limit_no_increment(tl, t_now) ==
    LET cur == IF t_now - tl.last_reset >= Window
               THEN [tl EXCEPT !.call_count = 0, !.last_reset = t_now]
               ELSE tl
    IN  IF cur.call_count >= cur.calls_per_minute
        THEN [ok |-> FALSE, limit |-> cur]
        ELSE [ok |-> TRUE, limit |-> cur]

check_rate_limit_off_by_one(tl, t_now) ==
    LET cur == IF t_now - tl.last_reset >= Window
               THEN [tl EXCEPT !.call_count = 0, !.last_reset = t_now]
               ELSE tl
    IN  IF cur.call_count > cur.calls_per_minute
        THEN [ok |-> FALSE, limit |-> cur]
        ELSE [ok |-> TRUE, limit |-> [cur EXCEPT !.call_count = @ + 1]]

check_rate_limit_always_resets(tl, t_now) ==
    LET cur == [tl EXCEPT !.call_count = 0, !.last_reset = t_now]
    IN  IF cur.call_count >= cur.calls_per_minute
        THEN [ok |-> FALSE, limit |-> cur]
        ELSE [ok |-> TRUE, limit |-> [cur EXCEPT !.call_count = @ + 1]]

check_rate_limit_strictly_after(tl, t_now) ==
    LET cur == IF t_now - tl.last_reset > Window
               THEN [tl EXCEPT !.call_count = 0, !.last_reset = t_now]
               ELSE tl
    IN  IF cur.call_count >= cur.calls_per_minute
        THEN [ok |-> FALSE, limit |-> cur]
        ELSE [ok |-> TRUE, limit |-> [cur EXCEPT !.call_count = @ + 1]]

check_rate_limit(tl, t_now) ==
    LET cur == IF t_now - tl.last_reset >= Window
               THEN [tl EXCEPT !.call_count = 0, !.last_reset = t_now]
               ELSE tl
    IN  IF cur.call_count >= cur.calls_per_minute
        THEN [ok |-> FALSE, limit |-> cur]
        ELSE [ok |-> TRUE, limit |-> [cur EXCEPT !.call_count = @ + 1]]

\* ------------------------------------------------- administrative handlers
request_state == <<reqs, last>>

AdminStep == Delivered /\ nevents' = nevents + 1

\* the JSON an administrative endpoint returns: "success", the "tools" list
\* of GET /api/tools, the "rate_limit" of a successful POST
\* /api/update-rate-limit; tool_name and asked are the tool_name and the
\* rate_limit of the request
AdminResult(op, success) ==
    [op |-> op, success |-> success, tools |-> <<>>, tool_name |-> NoName, rate_limit |-> 0,
     asked |-> 0]
NoAdmin == AdminResult("none", TRUE)

\* POST /api/toggle-tool
toggle_tool_keeps_other_set(tool_name, enabled) ==
    /\ AdminStep
    /\ IF enabled
       THEN /\ blocked_tools' = blocked_tools
            /\ allowed_tools' = allowed_tools \cup {tool_name}
       ELSE /\ allowed_tools' = allowed_tools
            /\ blocked_tools' = blocked_tools \cup {tool_name}
    /\ admin' = AdminResult("toggle-tool", TRUE)
    /\ UNCHANGED <<rate_limits, tool_usage_counts, session, available_tools, target_server_url, now,
                   request_state, recent, probe, detection>>

toggle_tool(tool_name, enabled) ==
    /\ AdminStep
    /\ IF enabled
       THEN /\ blocked_tools' = blocked_tools \ {tool_name}
            /\ allowed_tools' = allowed_tools \cup {tool_name}
       ELSE /\ allowed_tools' = allowed_tools \ {tool_name}
            /\ blocked_tools' = blocked_tools \cup {tool_name}
    /\ admin' = AdminResult("toggle-tool", TRUE)
    /\ UNCHANGED <<rate_limits, tool_usage_counts, session, available_tools, target_server_url, now,
                   request_state, recent, probe, detection>>

\* GET /api/tools: the 'enabled' value of a tool
tools_status_enabled_not_blocked(tool_name) == tool_name \notin blocked_tools

tools_status_enabled(tool_name) ==
    /\ tool_name \notin blocked_tools
    /\ (allowed_tools = {} \/ tool_name \in allowed_tools)

\* GET /api/tools: one entry per catalog tool; reading rate_limits[tool_name]
\* makes the entry of a tool that has none
get_tools_status ==
    /\ AdminStep
    /\ rate_limits' = [u \in DOMAIN rate_limits \cup {available_tools[i] : i \in DOMAIN available_tools}
                          |-> Limit(u)]
    /\ admin' = [AdminResult("tools", TRUE) EXCEPT
                 !.tools = [i \in DOMAIN available_tools |->
                               [name |-> available_tools[i],
                                enabled |-> tools_status_enabled(available_tools[i]),
                                usage_count |-> tool_usage_counts[available_tools[i]],
                                rate_limit |-> Limit(available_tools[i]).calls_per_minute,
                                current_usage |-> Limit(available_tools[i]).call_count]]]
    /\ UNCHANGED <<blocked_tools, allowed_tools, tool_usage_counts, session,
                   available_tools, target_server_url, now, request_state, recent, probe, detection>>

\* POST /api/update-rate-limit
update_rate_limit_stores_any(tool_name, rate_limit) ==
    /\ AdminStep
    /\ IF tool_name # NoName
       THEN /\ rate_limits' =
                   WithLimit(tool_name, [Limit(tool_name) EXCEPT !.calls_per_minute = rate_limit])
            /\ admin' = [AdminResult("update-rate-limit", TRUE) EXCEPT
                            !.tool_name = tool_name, !.rate_limit = rate_limit,
                            !.asked = rate_limit]
       ELSE /\ UNCHANGED rate_limits
            /\ admin' = [AdminResult("update-rate-limit", FALSE) EXCEPT
                            !.tool_name = tool_name, !.asked = rate_limit]
    /\ UNCHANGED <<blocked_tools, allowed_tools, tool_usage_counts, session,
                   available_tools, target_server_url, now, request_state, recent, probe, detection>>

update_rate_limit(tool_name, rate_limit) ==
    /\ AdminStep
    /\ LET new_limit == IF rate_limit = 0 THEN DefaultCap ELSE rate_limit
       IN  IF tool_name # NoName /\ new_limit > 0
           THEN /\ rate_limits' =
                       WithLimit(tool_name,
                                 [Limit(tool_name) EXCEPT !.calls_per_minute = new_limit])
                /\ admin' = [AdminResult("update-rate-limit", TRUE) EXCEPT
                                !.tool_name = tool_name, !.rate_limit = new_limit,
                                !.asked = rate_limit]
           ELSE /\ UNCHANGED rate_limits
                /\ admin' = [AdminResult("update-rate-limit", FALSE) EXCEPT
                                !.tool_name = tool_name, !.asked = rate_limit]
    /\ UNCHANGED <<blocked_tools, allowed_tools, tool_usage_counts, session,
                   available_tools, target_server_url, now, request_state, recent, probe, detection>>

\* POST /api/test-usage
test_usage(tool_name) ==
    /\ AdminStep
    /\ IF tool_name # NoName /\ \E i \in 1..Len(available_tools) : available_tools[i] = tool_name
       THEN /\ tool_usage_counts' = [tool_usage_counts EXCEPT ![tool_name] = @ + 1]
            /\ rate_limits' =
                   WithLimit(tool_name, [Limit(tool_name) EXCEPT !.call_count = @ + 1])
       ELSE UNCHANGED <<tool_usage_counts, rate_limits>>
    /\ admin' = AdminResult("test-usage",
                            tool_name # NoName
                                /\ \E i \in 1..Len(available_tools) : available_tools[i] = tool_name)
    /\ UNCHANGED <<blocked_tools, allowed_tools, session, available_tools, target_server_url, now,
                   request_state, recent, probe, detection>>

\* connect_to_target_server: the startup handshake
connect_to_target_server ==
    /\ Delivered
    /\ ~session
    /\ session' = TRUE
    /\ available_tools' = Catalog
    /\ UNCHANGED <<policy, target_server_url, tool_usage_counts, now, request_state, nevents, recent, probe, detection, admin>>

\* the clock advances; admission times older than the window leave `recent`
Tick ==
    /\ Delivered
    /\ now < MaxTicks * TickStep
    /\ now' = now + TickStep
    /\ nevents' = nevents + 1
    /\ recent' = [t \in ToolNames |-> SelectSeq(recent[t], LAMBDA x : x > now' - Window)]
    /\ UNCHANGED <<policy, tool_usage_counts, session, available_tools, target_server_url,
                   request_state, probe, detection, admin>>

\* ------------------------------------------------------- tools/call path
\* what httpx's client.request gives: a response, or a transport exception
UpstreamResponses(id) ==
    {[arrived |-> TRUE, status |-> st, body |-> b, headers |-> PlainHeaders] :
        st \in UpStatuses, b \in UpstreamBodies(id)}
UpstreamOutcomes(id) == UpstreamResponses(id) \cup {TransportError}

\* the payload that replaces a response flagged as injection
SafePayload(id, text) ==
    Frame(<<EV, LF, DATA>>,
          json_dumps(RpcResult(id, [content |-> <<[type |-> "text", text |-> text]>>,
                                    isError |-> TRUE])),
          <<CR, LF, CR, LF>>)

InjectionText == "Tool response blocked: prompt injection detected."
FormatText == "Message was not in expected format. Blocked."

Internal(detail) == HttpError(500, detail)

\* handle_tool_call after client.request returned `up`, with the detector
\* answering `verdict` if it is asked: the response for the client, whether
\* tool_usage_counts[tool_name] is incremented, and the detector's input
filter_response_fail_open(up, verdict) ==
    IF ~up.arrived THEN
        [response |-> Internal("transport"), counted |-> FALSE,
         asked |-> FALSE, text |-> NoBody]
    ELSE IF ~up.body.utf8 THEN
        [response |-> Internal("decode"), counted |-> FALSE,
         asked |-> FALSE, text |-> NoBody]
    ELSE IF verdict = "injection" /\ HasExpectedPrefix(up.body)
              /\ LoadsAfterPrefix(up.body).ok /\ LoadsAfterPrefix(up.body).value.id # NoId THEN
        [response |-> [headers |-> response_headers(up.headers), status |-> up.status,
                       body |-> SafePayload(LoadsAfterPrefix(up.body).value.id, InjectionText)],
         counted |-> FALSE, asked |-> TRUE, text |-> up.body]
    ELSE
        [response |-> [headers |-> response_headers(up.headers), status |-> up.status, body |-> up.body],
         counted |-> verdict = "clean", asked |-> TRUE, text |-> up.body]

filter_response_counts_all(up, verdict) ==
    IF ~up.arrived THEN
        [response |-> Internal("transport"), counted |-> FALSE,
         asked |-> FALSE, text |-> NoBody]
    ELSE IF ~up.body.utf8 THEN
        [response |-> Internal("decode"), counted |-> FALSE,
         asked |-> FALSE, text |-> NoBody]
    ELSE IF verdict = "raise" THEN
        [response |-> Internal("detector"), counted |-> FALSE,
         asked |-> TRUE, text |-> up.body]
    ELSE IF verdict = "injection" THEN
        IF HasExpectedPrefix(up.body) THEN
            LET loaded == LoadsAfterPrefix(up.body)
            IN  IF ~loaded.ok THEN
                    [response |-> Internal("json"), counted |-> FALSE,
                     asked |-> TRUE, text |-> up.body]
                ELSE IF loaded.value.id = NoId THEN
                    [response |-> Internal("'id'"), counted |-> FALSE,
                     asked |-> TRUE, text |-> up.body]
                ELSE
                    [response |-> [headers |-> response_headers(up.headers), status |-> up.status,
                                   body |-> SafePayload(loaded.value.id, InjectionText)],
                     counted |-> TRUE, asked |-> TRUE, text |-> up.body]
        ELSE
            [response |-> Internal("response_data"), counted |-> FALSE,
             asked |-> TRUE, text |-> up.body]
    ELSE
        [response |-> [headers |-> response_headers(up.headers), status |-> up.status, body |-> up.body],
         counted |-> TRUE, asked |-> TRUE, text |-> up.body]

filter_response_forgets_usage(up, verdict) ==
    IF ~up.arrived THEN
        [response |-> Internal("transport"), counted |-> FALSE,
         asked |-> FALSE, text |-> NoBody]
    ELSE IF ~up.body.utf8 THEN
        [response |-> Internal("decode"), counted |-> FALSE,
         asked |-> FALSE, text |-> NoBody]
    ELSE IF verdict = "raise" THEN
        [response |-> Internal("detector"), counted |-> FALSE,
         asked |-> TRUE, text |-> up.body]
    ELSE IF verdict = "injection" THEN
        [response |-> Internal("response_data"), counted |-> FALSE,
         asked |-> TRUE, text |-> up.body]
    ELSE
        [response |-> [headers |-> response_headers(up.headers), status |-> up.status, body |-> up.body],
         counted |-> FALSE, asked |-> TRUE, text |-> up.body]

filter_response_trusts_on_failure(up, verdict) ==
    IF ~up.arrived THEN
        [response |-> Internal("transport"), counted |-> FALSE,
         asked |-> FALSE, text |-> NoBody]
    ELSE IF ~up.body.utf8 THEN
        [response |-> Internal("decode"), counted |-> FALSE,
         asked |-> FALSE, text |-> NoBody]
    ELSE IF verdict = "raise" THEN
        [response |-> [headers |-> response_headers(up.headers), status |-> up.status, body |-> up.body],
         counted |-> TRUE, asked |-> TRUE, text |-> up.body]
    ELSE IF verdict = "injection" THEN
        IF HasExpectedPrefix(up.body) THEN
            LET loaded == LoadsAfterPrefix(up.body)
            IN  IF ~loaded.ok THEN
                    [response |-> Internal("json"), counted |-> FALSE,
                     asked |-> TRUE, text |-> up.body]
                ELSE IF loaded.value.id = NoId THEN
                    [response |-> Internal("'id'"), counted |-> FALSE,
                     asked |-> TRUE, text |-> up.body]
                ELSE
                    [response |-> [headers |-> response_headers(up.headers), status |-> up.status,
                                   body |-> SafePayload(loaded.value.id, InjectionText)],
                     counted |-> FALSE, asked |-> TRUE, text |-> up.body]
        ELSE
            [response |-> Internal("response_data"), counted |-> FALSE,
             asked |-> TRUE, text |-> up.body]
    ELSE
        [response |-> [headers |-> response_headers(up.headers), status |-> up.status, body |-> up.body],
         counted |-> TRUE, asked |-> TRUE, text |-> up.body]

filter_response(up, verdict) ==
    IF ~up.arrived THEN
        \* client.request raised: except Exception -> 500
        [response |-> Internal("transport"), counted |-> FALSE,
         asked |-> FALSE, text |-> NoBody]
    ELSE IF ~up.body.utf8 THEN
        \* response.content.decode() raised
        [response |-> Internal("decode"), counted |-> FALSE,
         asked |-> FALSE, text |-> NoBody]
    ELSE IF verdict = "raise" THEN
        \* sanitizer_instance.check(response_string) raised
        [response |-> Internal("detector"), counted |-> FALSE,
         asked |-> TRUE, text |-> up.body]
    ELSE IF verdict = "injection" THEN
        IF HasExpectedPrefix(up.body) THEN
            LET loaded == LoadsAfterPrefix(up.body)
            IN  IF ~loaded.ok THEN
                    \* json.loads raised
                    [response |-> Internal("json"), counted |-> FALSE,
                     asked |-> TRUE, text |-> up.body]
                ELSE IF loaded.value.id = NoId THEN
                    \* response_data['id'] raised KeyError
                    [response |-> Internal("'id'"), counted |-> FALSE,
                     asked |-> TRUE, text |-> up.body]
                ELSE
                    [response |-> [headers |-> response_headers(up.headers), status |-> up.status,
                                   body |-> SafePayload(loaded.value.id, InjectionText)],
                     counted |-> FALSE, asked |-> TRUE, text |-> up.body]
        ELSE
            \* the else branch reads response_data, which no statement has
            \* assigned: UnboundLocalError, caught by except Exception -> 500
            [response |-> Internal("response_data"), counted |-> FALSE,
             asked |-> TRUE, text |-> up.body]
    ELSE
        [response |-> [headers |-> response_headers(up.headers), status |-> up.status, body |-> up.body],
         counted |-> TRUE, asked |-> TRUE, text |-> up.body]

\* parse_and_direct_mcp_request: the handler chosen for a method
route_of_absent_as_initialize(method) ==
    IF method \in {"initialize", NoMethod} THEN "initialize"
    ELSE IF method = "tools/list" THEN "tools/list"
    ELSE IF method = "tools/call" THEN "tools/call"
    ELSE "default"

route_of(method) ==
    IF method = "initialize" THEN "initialize"
    ELSE IF method = "tools/list" THEN "tools/list"
    ELSE IF method = "tools/call" THEN "tools/call"
    ELSE "default"

\* body = await request.json(); method = body.get("method"): both raise for
\* a body that is not a JSON object, and nothing catches it ("error")
Dispatch(body) == IF body.json = "object" THEN route_of(body.method) ELSE "error"

\* the path the dispatcher hands to the handler
HandlerPath(route, path) == IF route = "default" THEN path ELSE NoPath

\* the blocked and allowed sets as a handler reads them now
PolicyRead == {<<blocked_tools, allowed_tools>>}

\* the response of request r goes to its caller and the coroutine ends;
\* `reads` is what the ending step itself read of the policy
CompleteReading(r, gate, response, up, asked, text, verdict, reads) ==
    /\ last' = [tool |-> reqs[r].tool, id |-> reqs[r].id, gate |-> gate,
                status |-> response.status, body |-> response.body,
                sent |-> reqs[r].pc = "upstream", up |-> up,
                asked |-> asked, text |-> text, verdict |-> verdict,
                inbound |-> reqs[r].body, path |-> reqs[r].path,
                route |-> IF reqs[r].pc = "upstream" THEN reqs[r].route
                          ELSE Dispatch(reqs[r].body),
                url |-> reqs[r].url, content |-> reqs[r].content,
                headers |-> response.headers, attempts |-> reqs[r].attempts,
                seen |-> reqs[r].seen \cup reads]
    /\ reqs' = [reqs EXCEPT ![r] = Idle]

Complete(r, gate, response, up, asked, text, verdict) ==
    CompleteReading(r, gate, response, up, asked, text, verdict, {})

\* an HTTPException raised before client.request
Reject(r, gate, status, detail) ==
    CompleteReading(r, gate, HttpError(status, detail), TransportError, FALSE, NoBody, "none",
                    IF gate = "none" THEN {} ELSE PolicyRead)

\* POST /mcp/{path}: a request arrives; the coroutine suspends in
\* await request.json() until the body is read
proxy_mcp(r, body, path) ==
    /\ Delivered
    /\ reqs[r].pc = "idle"
    /\ nevents' = nevents + 1
    /\ reqs' = [reqs EXCEPT ![r] = [Idle EXCEPT !.pc = "reading", !.tool = body.name,
                                                !.id = body.id, !.body = body,
                                                !.path = path]]
    /\ UNCHANGED <<policy, tool_usage_counts, session, available_tools, target_server_url, now, last,
                   recent, probe, detection, admin>>

\* ... a tools/call for tool_name with harmless arguments
Receive(r, tool_name) ==
    proxy_mcp(r, ToolCall(RequestId(r), tool_name, TRUE, Obj(<<KV("cmd", Harmless)>>)),
              <<"mcp">>)

\* the request sent upstream once the gate has passed: the handler's locals
\* after the sanitization step, the url, and content = await request.body()
input_sanitization_enabled == TRUE

Arguments(body) == IF body.hasargs THEN body.args ELSE EmptyArgs

Forwarded(slot, route) ==
    [slot EXCEPT !.pc = "upstream", !.route = route,
                 !.url = target_url(target_server_url, HandlerPath(route, slot.path)),
                 !.content = slot.body, !.attempts = @ + 1]

\* the rate-limit check of the gate; an admission is noted in `recent`
GateCheck(tool_name, res) ==
    /\ rate_limits' = WithLimit(tool_name, res.limit)
    /\ recent' = [recent EXCEPT ![tool_name] = IF res.ok THEN Append(@, now) ELSE @]

\* handle_tool_call from the body read to the upstream call: the body's
\* params, session check, allow/block check, rate-limit check, sanitization
\* of the arguments, then client.request is issued
handle_tool_call_forwards_rejected(r) ==
    /\ Delivered
    /\ reqs[r].pc = "reading"
    /\ Dispatch(reqs[r].body) = "tools/call"
    /\ LET tool_name == reqs[r].tool
       IN  IF ~session THEN
               /\ Reject(r, "none", 503, "Not connected to target server")
               /\ UNCHANGED <<rate_limits, recent>>
           ELSE IF ~is_tool_allowed(tool_name) THEN
               /\ Reject(r, "forbidden", 403, "not allowed")
               /\ UNCHANGED <<rate_limits, recent>>
           ELSE
               LET res == check_rate_limit(Limit(tool_name), now)
               IN  /\ GateCheck(tool_name, res)
                   /\ reqs' = [reqs EXCEPT ![r] =
                                  [Forwarded(reqs[r], "tools/call") EXCEPT
                                      !.gate = IF res.ok THEN "passed" ELSE "limited",
                                      !.seen = PolicyRead]]
                   /\ UNCHANGED last
    /\ UNCHANGED <<blocked_tools, allowed_tools, tool_usage_counts, session,
                   available_tools, target_server_url, now, nevents, probe, detection, admin>>

handle_tool_call_gate(r) ==
    /\ Delivered
    /\ reqs[r].pc = "reading"
    /\ Dispatch(reqs[r].body) = "tools/call"
    /\ LET tool_name == reqs[r].tool
           tool_args == Arguments(reqs[r].body)
       IN  IF ~reqs[r].body.params THEN
               \* data.get("params") is None: .get raises AttributeError
               /\ Reject(r, "none", 500, "'NoneType' object has no attribute 'get'")
               /\ UNCHANGED <<rate_limits, recent>>
           ELSE IF ~session THEN
               /\ Reject(r, "none", 503, "Not connected to target server")
               /\ UNCHANGED <<rate_limits, recent>>
           ELSE IF ~is_tool_allowed(tool_name) THEN
               /\ Reject(r, "forbidden", 403, "not allowed")
               /\ UNCHANGED <<rate_limits, recent>>
           ELSE
               LET res == check_rate_limit(Limit(tool_name), now)
               IN  /\ GateCheck(tool_name, res)
                   /\ IF ~res.ok THEN
                          Reject(r, "limited", 429, "Rate limit exceeded")
                      ELSE IF input_sanitization_enabled /\ ~HasItems(tool_args) THEN
                          \* sanitize_input: args.items() raises AttributeError
                          Reject(r, "passed", 500, "object has no attribute 'items'")
                      ELSE
                          /\ reqs' = [reqs EXCEPT ![r] =
                                         [Forwarded(reqs[r], "tools/call") EXCEPT
                                             !.gate = "passed",
                                             !.seen = PolicyRead,
                                             !.tool_args =
                                                 IF input_sanitization_enabled
                                                 THEN sanitize_input(tool_args)
                                                 ELSE tool_args]]
                          /\ UNCHANGED last
    /\ UNCHANGED <<blocked_tools, allowed_tools, tool_usage_counts, session,
                   available_tools, target_server_url, now, nevents, probe, detection, admin>>

\* handle_tool_call from the return of client.request to the response
handle_tool_call_reply_rereads(r, up, verdict) ==
    /\ Delivered
    /\ reqs[r].pc = "upstream"
    /\ reqs[r].route = "tools/call"
    /\ LET out == filter_response(up, verdict)
       IN  /\ CompleteReading(r, reqs[r].gate, out.response, up, out.asked, out.text,
                              IF out.asked THEN verdict ELSE "none", PolicyRead)
           /\ tool_usage_counts' =
                  IF out.counted
                  THEN [tool_usage_counts EXCEPT ![reqs[r].tool] = @ + 1]
                  ELSE tool_usage_counts
    /\ UNCHANGED <<policy, session, available_tools, target_server_url, now, nevents, recent, probe, detection, admin>>

handle_tool_call_reply_retries(r, up, verdict) ==
    /\ Delivered
    /\ reqs[r].pc = "upstream"
    /\ reqs[r].route = "tools/call"
    /\ IF ~up.arrived /\ reqs[r].attempts < 2
       THEN /\ reqs' = [reqs EXCEPT ![r].attempts = @ + 1]
            /\ UNCHANGED <<last, tool_usage_counts>>
       ELSE LET out == filter_response(up, verdict)
            IN  /\ Complete(r, reqs[r].gate, out.response, up, out.asked, out.text,
                            IF out.asked THEN verdict ELSE "none")
                /\ tool_usage_counts' =
                       IF out.counted
                       THEN [tool_usage_counts EXCEPT ![reqs[r].tool] = @ + 1]
                       ELSE tool_usage_counts
    /\ UNCHANGED <<policy, session, available_tools, target_server_url, now, nevents, recent, probe, detection, admin>>

handle_tool_call_reply_refunds(r, up, verdict) ==
    /\ Delivered
    /\ reqs[r].pc = "upstream"
    /\ reqs[r].route = "tools/call"
    /\ LET out == filter_response(up, verdict)
       IN  /\ Complete(r, reqs[r].gate, out.response, up, out.asked, out.text,
                       IF out.asked THEN verdict ELSE "none")
           /\ tool_usage_counts' =
                  IF out.counted
                  THEN [tool_usage_counts EXCEPT ![reqs[r].tool] = @ + 1]
                  ELSE tool_usage_counts
           /\ rate_limits' =
                  IF out.counted \/ Limit(reqs[r].tool).call_count = 0
                  THEN rate_limits
                  ELSE WithLimit(reqs[r].tool,
                                 [Limit(reqs[r].tool) EXCEPT !.call_count = @ - 1])
    /\ UNCHANGED <<blocked_tools, allowed_tools, session, available_tools, target_server_url,
                   now, nevents, recent, probe, detection, admin>>

handle_tool_call_reply(r, up, verdict) ==
    /\ Delivered
    /\ reqs[r].pc = "upstream"
    /\ reqs[r].route = "tools/call"
    /\ LET out == filter_response(up, verdict)
       IN  /\ Complete(r, reqs[r].gate, out.response, up, out.asked, out.text,
                       IF out.asked THEN verdict ELSE "none")
           /\ tool_usage_counts' =
                  IF out.counted
                  THEN [tool_usage_counts EXCEPT ![reqs[r].tool] = @ + 1]
                  ELSE tool_usage_counts
    /\ UNCHANGED <<policy, session, available_tools, target_server_url, now, nevents, recent, probe, detection, admin>>

\* ------------------------------------------------- the other handlers
\* parse_and_direct_mcp_request on a body that is not a JSON object:
\* request.json() or body.get raises outside every try block, and the
\* server answers 500 Internal Server Error
parse_and_direct_mcp_request_crashes(r) ==
    /\ Delivered
    /\ reqs[r].pc = "reading"
    /\ Dispatch(reqs[r].body) = "error"
    /\ reqs' = [reqs EXCEPT ![r].pc = "crashed"]
    /\ UNCHANGED <<policy, tool_usage_counts, session, available_tools, target_server_url,
                   now, last, nevents, recent, probe, detection, admin>>

parse_and_direct_mcp_request_raises(r) ==
    /\ Delivered
    /\ reqs[r].pc = "reading"
    /\ Dispatch(reqs[r].body) = "error"
    /\ Reject(r, "none", 500, "Internal Server Error")
    /\ UNCHANGED <<policy, tool_usage_counts, session, available_tools, target_server_url,
                   now, nevents, recent, probe, detection, admin>>

\* handle_mcp_request and updated_handle_tools_list up to client.request
forward_request(r, routes) ==
    /\ Delivered
    /\ reqs[r].pc = "reading"
    /\ Dispatch(reqs[r].body) \in routes
    /\ reqs' = [reqs EXCEPT ![r] = Forwarded(reqs[r], Dispatch(reqs[r].body))]
    /\ UNCHANGED <<policy, tool_usage_counts, session, available_tools, target_server_url,
                   now, last, nevents, recent, probe, detection, admin>>

handle_mcp_request_send(r) == forward_request(r, {"initialize", "default"})
updated_handle_tools_list_send(r) == forward_request(r, {"tools/list"})

\* handle_mcp_request after client.request returned `up`
handle_mcp_request_returns_ok(up) ==
    IF ~up.arrived THEN Internal("transport")
    ELSE [headers |-> response_headers(up.headers), status |-> 200, body |-> up.body]

handle_mcp_request_returns(up) ==
    IF ~up.arrived THEN Internal("transport")
    ELSE [headers |-> response_headers(up.headers), status |-> up.status, body |-> up.body]

\* the response of a handler that asks no detector
answer(r, routes, response, up) ==
    /\ Delivered
    /\ reqs[r].pc = "upstream"
    /\ reqs[r].route \in routes
    /\ Complete(r, "none", response, up, FALSE, NoBody, "none")
    /\ UNCHANGED <<policy, tool_usage_counts, session, available_tools, target_server_url,
                   now, nevents, recent, probe, detection, admin>>

handle_mcp_request_reply(r, up) ==
    answer(r, {"initialize", "default"}, handle_mcp_request_returns(up), up)

\* strip(): whitespace off both ends
RECURSIVE strip_left(_)
strip_left(s) == IF s # <<>> /\ s[1] \in Whitespace THEN strip_left(Tail(s)) ELSE s

RECURSIVE strip_right(_)
strip_right(s) ==
    IF s # <<>> /\ s[Len(s)] \in Whitespace THEN strip_right(SubSeq(s, 1, Len(s) - 1)) ELSE s

Min(S) == CHOOSE x \in S : \A y \in S : x <= y

\* the place of the JSON text in the token run of a body
JSONTEXT == "<json>"

\* lines = response_string.strip().split('\n'); json_line = next(line for
\* line in lines if line.startswith('data: ')); json.loads(json_line[6:])
decode_data_line(body) ==
    LET stream == strip_right(strip_left(body.head \o <<JSONTEXT>> \o body.tail))
        starts == {i \in 1..Len(stream) : stream[i] = DATA /\ (i = 1 \/ stream[i - 1] = LF)}
        first == Min(starts)
        stop == Min({j \in (first + 1)..Len(stream) : stream[j] = LF} \cup {Len(stream) + 1})
        json_string == SubSeq(stream, first + 1, stop - 1)
    IN  IF starts = {} THEN [ok |-> FALSE, value |-> NotJson.value]
        ELSE IF /\ body.payload.wellformed
                /\ Cardinality({k \in 1..Len(json_string) : json_string[k] = JSONTEXT}) = 1
                /\ \A k \in 1..Len(json_string) : json_string[k] \in Whitespace \cup {JSONTEXT}
             THEN [ok |-> TRUE, value |-> body.payload.value]
             ELSE [ok |-> FALSE, value |-> NotJson.value]

\* f"event: message\ndata: {json.dumps(data)}\r\n\r\n"
encode_frame_on_one_line(data) == Frame(<<EV, DATA>>, json_dumps(data), <<CR, LF, CR, LF>>)

encode_frame(data) == Frame(<<EV, LF, DATA>>, json_dumps(data), <<CR, LF, CR, LF>>)

\* [tool for tool in data['result']['tools'] if tool['name'] not in blocked_tools]
visible_tools_gate_decision(tools, blocked, allowed) ==
    SelectSeq(tools, LAMBDA tool : is_allowed_in(tool.name, blocked, allowed))

visible_tools(tools, blocked, allowed) ==
    SelectSeq(tools, LAMBDA tool : tool.name \notin blocked)

\* updated_handle_tools_list after client.request returned `up`
updated_handle_tools_list_returns_fail_open(up) ==
    IF ~up.arrived THEN Internal("transport")
    ELSE IF ~up.body.utf8 THEN Internal("decode")
    ELSE LET data == decode_data_line(up.body)
         IN  IF ~data.ok \/ "tools" \notin DOMAIN data.value.result THEN
                 [headers |-> response_headers(up.headers), status |-> up.status,
                  body |-> up.body]
             ELSE
                 [headers |-> response_headers(up.headers), status |-> up.status,
                  body |-> encode_frame([data.value EXCEPT !.result.tools =
                                            visible_tools(@, blocked_tools, allowed_tools)])]

updated_handle_tools_list_returns(up) ==
    IF ~up.arrived THEN Internal("transport")
    ELSE IF ~up.body.utf8 THEN Internal("decode")
    ELSE LET data == decode_data_line(up.body)
         IN  IF ~data.ok THEN
                 \* StopIteration or JSONDecodeError
                 Internal("data line")
             ELSE IF "tools" \notin DOMAIN data.value.result THEN
                 \* KeyError
                 Internal("'tools'")
             ELSE
                 [headers |-> response_headers(up.headers), status |-> up.status,
                  body |-> encode_frame([data.value EXCEPT !.result.tools =
                                            visible_tools(@, blocked_tools, allowed_tools)])]

\* ... which reads blocked_tools in the filter when the envelope decoded
updated_handle_tools_list_reply(r, up) ==
    LET response == updated_handle_tools_list_returns(up)
    IN  /\ Delivered
        /\ reqs[r].pc = "upstream"
        /\ reqs[r].route = "tools/list"
        /\ CompleteReading(r, "none", response, up, FALSE, NoBody, "none",
                           IF response.body.payload.value.detail = "" THEN PolicyRead ELSE {})
        /\ UNCHANGED <<policy, tool_usage_counts, session, available_tools, target_server_url,
                       now, nevents, recent, probe, detection, admin>>

\* a direct evaluation of is_tool_allowed (the dashboard's /api/stats does one
\* per catalog tool)
Probe(tool_name) ==
    /\ probe' = [tool |-> tool_name, allowed |-> is_tool_allowed(tool_name)]
    /\ UNCHANGED <<policy, tool_usage_counts, session, available_tools, target_server_url, now,
                   request_state, nevents, recent, detection, admin>>

\* the response has been written to the client
Deliver ==
    /\ ~Delivered
    /\ last' = NoLast
    /\ UNCHANGED <<policy, tool_usage_counts, session, available_tools, target_server_url, now, reqs,
                   nevents, recent, probe, detection, admin>>

\* ------------------------------------------------------- PromptSanitizer
\* A text is a run of phrases; str.lower() of a phrase
TextPhrases ==
    {"Ignore Previous Instructions", "system prompt", "You Are Now", "tool output", "data"}

str_lower(phrase) ==
    CASE phrase = "Ignore Previous Instructions" -> "ignore previous instructions"
      [] phrase = "You Are Now" -> "you are now"
      [] OTHER -> phrase

Texts == UNION {[1..n -> TextPhrases] : n \in 0..MaxText}

\* _rule_based_check: the patterns, in the order they are tried
injection_patterns ==
    <<"ignore previous instructions", "forget everything above", "new instructions:",
      "system prompt", "you are now", "pretend to be", "roleplay as",
      "list all functions", "function name", "mock using the example">>

\* pattern in text_lower
PatternIn(pattern, text) == \E i \in DOMAIN text : str_lower(text[i]) = pattern

\* what check or _rule_based_check gives: a verdict dict, or an exception
Verdict(is_injection, method, confidence, label, pattern) ==
    [raised |-> FALSE, error |-> "", is_injection |-> is_injection, method |-> method,
     confidence |-> confidence, label |-> label, pattern |-> pattern]

Raises(error) ==
    [raised |-> TRUE, error |-> error, is_injection |-> FALSE, method |-> "",
     confidence |-> 0, label |-> "", pattern |-> ""]

NoVerdict == Verdict(FALSE, "", 0, "", "")

rule_based_check(text) ==
    LET hits == {i \in DOMAIN injection_patterns : PatternIn(injection_patterns[i], text)}
    IN  IF hits # {}
        THEN Verdict(TRUE, "rule-based", RuleHit, "", injection_patterns[Min(hits)])
        ELSE Verdict(FALSE, "rule-based", RuleMiss, "", "")

\* what self.classifier(text, ...) does when it is called: it raises, or it
\* gives a label and a score (in hundredths)
NotCalled == [raises |-> FALSE, label |-> "", score |-> 0]
MLOutcomes ==
    {[raises |-> TRUE, label |-> "", score |-> 0]}
    \cup {[raises |-> FALSE, label |-> l, score |-> sc] :
             l \in {"untrusted", "trusted"}, sc \in {50, 80, 95}}

\* PromptSanitizer.check: the rule-based pre-filter is commented out, so the
\* name rule_result is never assigned and both 'return rule_result' raise
\* NameError
check(classifier, ml, text) ==
    IF classifier = "none" THEN Raises("name 'rule_result' is not defined")
    ELSE IF ml.raises THEN Raises("name 'rule_result' is not defined")
    ELSE Verdict(ml.label = "untrusted" /\ ml.score > threshold, "ml", ml.score, ml.label, "")

\* the sanitizer after PromptSanitizer() loaded its model, before any call
NoDetection ==
    [classifier |-> "loaded", called |-> FALSE, ml |-> NotCalled, text |-> <<>>,
     result |-> NoVerdict]

\* sanitizer_instance.check(text), the classifier doing ml if it is called
sanitizer_check(text, ml) ==
    /\ detection' = [detection EXCEPT
                        !.called = TRUE,
                        !.text = text,
                        !.ml = IF detection.classifier = "none" THEN NotCalled ELSE ml,
                        !.result = check(detection.classifier, ml, text)]
    /\ UNCHANGED <<policy, tool_usage_counts, session, available_tools, target_server_url, now,
                   request_state, nevents, recent, probe, admin>>

\* ------------------------------------------------------- specifications
NoProbe == [tool |-> NoName, allowed |-> FALSE]

\* the state after MCPProxyMiddleware.__init__
Init ==
    /\ blocked_tools = {}
    /\ allowed_tools = {}
    /\ rate_limits = <<>>
    /\ tool_usage_counts = [t \in ToolNames |-> 0]
    /\ session = FALSE
    /\ available_tools = <<>>
    /\ target_server_url = BaseUrl
    /\ now = 0
    /\ reqs = [r \in Reqs |-> Idle]
    /\ last = NoLast
    /\ nevents = 0
    /\ recent = [t \in ToolNames |-> <<>>]
    /\ probe = NoProbe
    /\ detection = NoDetection
    /\ admin = NoAdmin

\* the environment: administrators, clients, the clock, the upstream server
\* and the detector
Budget == nevents < MaxEvents
ToggleTool == \E t \in ToolNames, enabled \in BOOLEAN : Budget /\ toggle_tool(t, enabled)
UpdateRateLimit == \E t \in AdminNames, n \in RateInputs : Budget /\ update_rate_limit(t, n)
TestUsage == \E t \in AdminNames : Budget /\ test_usage(t)
Clock == Budget /\ Tick
ReceiveCall == \E r \in Reqs, t \in ToolNames : Budget /\ Receive(r, t)
Gate == \E r \in Reqs : handle_tool_call_gate(r)
Reply ==
    \E r \in Reqs : \E up \in UpstreamOutcomes(reqs[r].id), verdict \in Verdicts :
        handle_tool_call_reply(r, up, verdict)

Next ==
    \/ connect_to_target_server
    \/ ToggleTool
    \/ UpdateRateLimit
    \/ TestUsage
    \/ Clock
    \/ ReceiveCall
    \/ Gate
    \/ Reply
    \/ Deliver

Spec == Init /\ [][Next]_vars

\* --- is_tool_allowed as a function of the policy sets: every pair of sets
PolicyInit ==
    /\ blocked_tools \in SUBSET ProbeNames
    /\ allowed_tools \in SUBSET ProbeNames
    /\ rate_limits = <<>>
    /\ tool_usage_counts = [t \in ToolNames |-> 0]
    /\ session = TRUE
    /\ available_tools = Catalog
    /\ target_server_url = BaseUrl
    /\ now = 0
    /\ reqs = [r \in Reqs |-> Idle]
    /\ last = NoLast
    /\ nevents = 0
    /\ recent = [t \in ToolNames |-> <<>>]
    /\ probe = NoProbe
    /\ detection = NoDetection
    /\ admin = NoAdmin

PolicyProbe == \E t \in ProbeNames : Probe(t)
PolicyStatus == Budget /\ get_tools_status

PolicyNext ==
    \/ PolicyProbe
    \/ PolicyStatus

PolicySpec == PolicyInit /\ [][PolicyNext]_vars

\* --- the security gate under load: a connected proxy whose caps were set
\* at time 0, requests and the clock, no administrative operation, an
\* upstream that answers and a detector that finds nothing
GateInit ==
    /\ blocked_tools = {}
    /\ allowed_tools = {}
    /\ rate_limits \in [ToolNames -> {[calls_per_minute |-> c, last_reset |-> 0,
                                       call_count |-> 0] : c \in GateCaps}]
    /\ tool_usage_counts = [t \in ToolNames |-> 0]
    /\ session = TRUE
    /\ available_tools = Catalog
    /\ target_server_url = BaseUrl
    /\ now = 0
    /\ reqs = [r \in Reqs |-> Idle]
    /\ last = NoLast
    /\ nevents = 0
    /\ recent = [t \in ToolNames |-> <<>>]
    /\ probe = NoProbe
    /\ detection = NoDetection
    /\ admin = NoAdmin

RapidBudget == nevents < MaxRapid
RapidClock == RapidBudget /\ Tick
RapidCall == \E r \in Reqs, t \in ToolNames : RapidBudget /\ Receive(r, t)
HealthyReply ==
    \E r \in Reqs :
        handle_tool_call_reply(
            r,
            [arrived |-> TRUE, status |-> 200, headers |-> PlainHeaders,
             body |-> Frame(ExpectedPrefix, json_dumps(RpcResult(reqs[r].id, ToolResult)),
                            <<CR, LF, CR, LF>>)],
            "clean")

GateNext ==
    \/ RapidClock
    \/ RapidCall
    \/ Gate
    \/ HealthyReply
    \/ Deliver

GateSpec == GateInit /\ [][GateNext]_vars

\* --- the whole dispatcher: a connected proxy started with any of the base
\* URLs, one client that sends requests of every kind one after the other,
\* an administrator who toggles tools, and an upstream server that answers
\* each kind of request with well-formed and with malformed responses
ProxyInit ==
    /\ blocked_tools = {}
    /\ allowed_tools = {}
    /\ rate_limits = <<>>
    /\ tool_usage_counts = [t \in ToolNames |-> 0]
    /\ session = TRUE
    /\ available_tools = Catalog
    /\ target_server_url \in Bases
    /\ now = 0
    /\ reqs = [r \in Reqs |-> Idle]
    /\ last = NoLast
    /\ nevents = 0
    /\ recent = [t \in ToolNames |-> <<>>]
    /\ probe = NoProbe
    /\ detection = NoDetection
    /\ admin = NoAdmin

\* (body, path) of the requests the client sends
Inbound(id) ==
    ({ToolCall(id, "t1", TRUE, args) : args \in ArgTrees}
        \cup {ToolCall(id, "t2", FALSE, EmptyArgs),
              InBody("object", "tools/call", id, FALSE, "", FALSE, EmptyArgs),
              Plain("array", NoMethod, NoId), Plain("scalar", NoMethod, NoId),
              Plain("notjson", NoMethod, NoId)}) \X {<<"mcp">>}
    \cup {Plain("object", method, id) : method \in Methods \ {"tools/call"}} \X Paths

\* tool descriptors of a tools/list result
Tool(name) == [name |-> name, description |-> "about " \o name]
UpstreamCatalogs ==
    {<<>>, <<Tool("t1"), Tool("t2"), Tool("t3")>>, <<Tool("t3"), Tool("t1")>>}

ListResult(id, tools) == json_dumps(RpcResult(id, [tools |-> tools]))

\* bodies the upstream server may answer a tools/list with
ListBodies(id) ==
    {Frame(<<EV, CR, LF, DATA>>, ListResult(id, tools), <<CR, LF, CR, LF>>) :
        tools \in UpstreamCatalogs}
    \cup { Frame(<<EV, LF, DATA>>, ListResult(id, <<Tool("t2"), Tool("t1")>>), <<CR, LF, CR, LF>>),
           Frame(<<EV, CR, LF>>, ListResult(id, <<Tool("t1")>>), <<CR, LF, CR, LF>>),
           Frame(<<EV, CR, LF, DATA>>, NotJson, <<CR, LF, CR, LF>>),
           Frame(<<EV, CR, LF, DATA>>, json_dumps(RpcResult(id, ToolResult)), <<CR, LF, CR, LF>>),
           [Frame(<<>>, NotJson, <<>>) EXCEPT !.utf8 = FALSE] }

Answers(statuses, bodies, headersets) ==
    {[arrived |-> TRUE, status |-> st, body |-> b, headers |-> h] :
        st \in statuses, b \in bodies, h \in headersets}
    \cup {TransportError}

PassOutcomes(id) ==
    Answers(UpStatuses,
            {Frame(ExpectedPrefix, json_dumps(RpcResult(id, NoResult)), <<CR, LF, CR, LF>>),
             NoBody},
            UpHeaderSets)
ListOutcomes(id) == Answers({200}, ListBodies(id), {PlainHeaders, {"LOCATION", "X-Up"}})
CallOutcomes(id) ==
    Answers({200},
            {Frame(ExpectedPrefix, json_dumps(RpcResult(id, ToolResult)), <<CR, LF, CR, LF>>)},
            UpHeaderSets)

ProxyBudget == nevents < MaxProxy
Quiet == \A q \in Reqs : reqs[q].pc = "idle"

ProxyToggle == \E t \in ProbeNames, enabled \in BOOLEAN : ProxyBudget /\ toggle_tool(t, enabled)
ProxyReceive ==
    \E r \in Reqs : \E inbound \in Inbound(RequestId(r)) :
        ProxyBudget /\ Quiet /\ r = Min(Reqs) /\ proxy_mcp(r, inbound[1], inbound[2])
DispatchRaises == \E r \in Reqs : parse_and_direct_mcp_request_raises(r)
PassSend == \E r \in Reqs : handle_mcp_request_send(r)
ListSend == \E r \in Reqs : updated_handle_tools_list_send(r)
PassReply == \E r \in Reqs : \E up \in PassOutcomes(reqs[r].id) : handle_mcp_request_reply(r, up)
ListReply ==
    \E r \in Reqs : \E up \in ListOutcomes(reqs[r].id) : updated_handle_tools_list_reply(r, up)
CallReply ==
    \E r \in Reqs : \E up \in CallOutcomes(reqs[r].id), verdict \in {"clean", "injection"} :
        handle_tool_call_reply(r, up, verdict)

ProxyNext ==
    \/ ProxyToggle
    \/ ProxyReceive
    \/ DispatchRaises
    \/ PassSend
    \/ ListSend
    \/ Gate
    \/ PassReply
    \/ ListReply
    \/ CallReply
    \/ Deliver

ProxySpec == ProxyInit /\ [][ProxyNext]_vars

\* --- requests handled concurrently, each with a step that can fail: a body
\* that is not JSON, a blocked tool, arguments that are not an object, an
\* upstream call that fails, an envelope that does not decode, a detector
\* that raises.  The event loop resumes every coroutine that is ready, and
\* client.request returns or raises within httpx's default timeout, so every
\* handler step that stays enabled is eventually taken.
LiveInit ==
    /\ blocked_tools = {}
    /\ allowed_tools = {}
    /\ rate_limits = <<>>
    /\ tool_usage_counts = [t \in ToolNames |-> 0]
    /\ session = TRUE
    /\ available_tools = Catalog
    /\ target_server_url = BaseUrl
    /\ now = 0
    /\ reqs = [r \in Reqs |-> Idle]
    /\ last = NoLast
    /\ nevents = 0
    /\ recent = [t \in ToolNames |-> <<>>]
    /\ probe = NoProbe
    /\ detection = NoDetection
    /\ admin = NoAdmin

LiveInbound(id) ==
    {ToolCall(id, "t1", TRUE, Obj(<<KV("cmd", Harmless)>>)),
     ToolCall(id, "t1", TRUE, Arr(<<Harmless>>)),
     ToolCall(id, "t2", TRUE, EmptyArgs),
     Plain("notjson", NoMethod, NoId),
     Plain("object", "tools/list", id),
     Plain("object", "ping", id)}

LiveListOutcomes(id) ==
    {[arrived |-> TRUE, status |-> 200, body |-> b, headers |-> PlainHeaders] :
        b \in {Frame(<<EV, CR, LF, DATA>>, ListResult(id, <<Tool("t1"), Tool("t2")>>),
                     <<CR, LF, CR, LF>>),
               Frame(<<EV, CR, LF>>, ListResult(id, <<Tool("t1")>>), <<CR, LF, CR, LF>>)}}
    \cup {TransportError}

LivePassOutcomes(id) ==
    {[arrived |-> TRUE, status |-> 200,
      body |-> Frame(ExpectedPrefix, json_dumps(RpcResult(id, NoResult)), <<CR, LF, CR, LF>>),
      headers |-> PlainHeaders],
     TransportError}

LiveBudget == nevents < MaxLive

LiveBlock == LiveBudget /\ toggle_tool("t2", FALSE)
LiveReceive ==
    \E r \in Reqs : \E body \in LiveInbound(RequestId(r)) :
        LiveBudget /\ proxy_mcp(r, body, <<"mcp">>)
LiveDispatchRaises(r) == parse_and_direct_mcp_request_raises(r)
LivePassSend(r) == handle_mcp_request_send(r)
LiveListSend(r) == updated_handle_tools_list_send(r)
LiveGate(r) == handle_tool_call_gate(r)
LivePassReply(r) == \E up \in LivePassOutcomes(reqs[r].id) : handle_mcp_request_reply(r, up)
LiveListReply(r) ==
    \E up \in LiveListOutcomes(reqs[r].id) : updated_handle_tools_list_reply(r, up)
LiveCallReply(r) ==
    \E up \in UpstreamOutcomes(reqs[r].id), verdict \in Verdicts :
        handle_tool_call_reply(r, up, verdict)

\* the next step of the coroutine that handles request r
LiveStep(r) ==
    \/ LiveDispatchRaises(r)
    \/ LivePassSend(r)
    \/ LiveListSend(r)
    \/ LiveGate(r)
    \/ LivePassReply(r)
    \/ LiveListReply(r)
    \/ LiveCallReply(r)

LiveNext ==
    \/ LiveBlock
    \/ LiveReceive
    \/ \E r \in Reqs : LiveStep(r)
    \/ Deliver

LiveSpec ==
    /\ LiveInit
    /\ [][LiveNext]_vars
    /\ \A r \in Reqs : WF_vars(LiveStep(r))
    /\ WF_vars(Deliver)

\* --- PromptSanitizer.check as a function of the classifier, of what the
\* classifier does and of the text: the model loaded or not (__init__ sets
\* classifier to None when loading fails), every text of up to MaxText phrases
DetectorInit ==
    /\ blocked_tools = {}
    /\ allowed_tools = {}
    /\ rate_limits = <<>>
    /\ tool_usage_counts = [t \in ToolNames |-> 0]
    /\ session = FALSE
    /\ available_tools = <<>>
    /\ target_server_url = BaseUrl
    /\ now = 0
    /\ reqs = [r \in Reqs |-> Idle]
    /\ last = NoLast
    /\ nevents = 0
    /\ recent = [t \in ToolNames |-> <<>>]
    /\ probe = NoProbe
    /\ detection \in {[NoDetection EXCEPT !.classifier = c] : c \in {"loaded", "none"}}
    /\ admin = NoAdmin

DetectorCheck == \E text \in Texts, ml \in MLOutcomes : sanitizer_check(text, ml)

DetectorNext == DetectorCheck

DetectorSpec == DetectorInit /\ [][DetectorNext]_vars

\* ================================================================ claims

\* C1. is_tool_allowed(t) is false exactly when t is blocked, or the
\* allow-list is non-empty and t is not in it: a tool in both sets is
\* not allowed, and an empty allow-list allows every tool not blocked.
C1_IsAllowedIff ==
    probe # NoProbe =>
        (~probe.allowed <=>
            \/ probe.tool \in blocked_tools
            \/ (allowed_tools # {} /\ probe.tool \notin allowed_tools))

C1_BlockedOverridesAllowed ==
    /\ probe.tool \in blocked_tools \cap allowed_tools
    /\ ~probe.allowed

\* C2. A tools/call the gate rejects (403 forbidden, 429 rate limited) is
\* answered directly: client.request is issued only for requests the gate
\* passed, and a rejected request ends with no upstream call.
C2_RejectedNeverForwarded ==
    /\ \A r \in Reqs : reqs[r].pc = "upstream" => reqs[r].gate = "passed"
    /\ last.gate = "forbidden" => (~last.sent /\ last.status = 403)
    /\ last.gate = "limited" => (~last.sent /\ last.status = 429)
    /\ last.sent => last.gate = "passed"

C2_RateLimitedAnswered ==
    /\ last.gate = "limited"
    /\ last.status = 429
    /\ ~last.sent

\* admissions of tool t noted at or after the start of t's current window
InWindow(t) ==
    Cardinality({i \in 1..Len(recent[t]) : recent[t][i] >= rate_limits[t].last_reset})

\* C3. Of the concurrent requests for one tool, at most cap pass
\* check_rate_limit within one window, in every interleaving: the admissions
\* since the window start never exceed calls_per_minute.
C3_AtMostCapAdmitted ==
    \A t \in DOMAIN rate_limits : InWindow(t) <= rate_limits[t].calls_per_minute

C3_OneAdmittedOneRejected ==
    \E r \in Reqs :
        /\ reqs[r].pc = "upstream"
        /\ last.tool = reqs[r].tool
        /\ last.gate = "limited"
        /\ rate_limits[last.tool].calls_per_minute = 1
        /\ recent[last.tool] = <<now>>

\* request r runs its rate-limit check in this step
ChecksRate(r) ==
    /\ reqs[r].pc = "reading"
    /\ reqs'[r].pc # "reading"
    /\ session
    /\ is_tool_allowed(reqs[r].tool)

\* ... and is admitted
Admitted(r) == reqs'[r].pc = "upstream"

\* C4. With cap 3, a check made less than 60 s after the window start is
\* admitted exactly when fewer than 3 calls were admitted in the window (so
\* calls 1-3 pass and call 4 is rejected) and leaves the window start alone;
\* a check made 60 s or more after the window start is admitted and resets
\* the window: last_reset becomes now and call_count becomes 1.
C4_CapThree ==
    [][\A r \in Reqs :
         LET t == reqs[r].tool
         IN  (ChecksRate(r) /\ rate_limits[t].calls_per_minute = 3) =>
                 IF now - rate_limits[t].last_reset < 60
                 THEN /\ Admitted(r) <=> InWindow(t) < 3
                      /\ ~Admitted(r) => last'.status = 429
                      /\ rate_limits'[t].last_reset = rate_limits[t].last_reset
                 ELSE /\ Admitted(r)
                      /\ rate_limits'[t].last_reset = now
                      /\ rate_limits'[t].call_count = 1]_vars

C4_ResetAfterFullWindow ==
    \E t \in DOMAIN rate_limits :
        /\ rate_limits[t].calls_per_minute = 3
        /\ now >= 60
        /\ rate_limits[t].last_reset = now
        /\ rate_limits[t].call_count = 1
        /\ Len(recent[t]) = 4

\* C5 as stated. The budget is rolling: in every interval of 60 seconds
\* the admissions of a tool are at most its cap. (recent[t] holds the
\* admissions of the last 60 seconds.)
C5_RollingBudget ==
    \A t \in DOMAIN rate_limits : Len(recent[t]) <= rate_limits[t].calls_per_minute

\* C5 amended. The budget is per fixed window: at most cap admissions in the
\* 60 seconds that follow a window start, hence at most twice the cap in
\* any interval of 60 seconds.
C5_FixedWindowBudget ==
    \A t \in DOMAIN rate_limits :
        /\ InWindow(t) <= rate_limits[t].calls_per_minute
        /\ Len(recent[t]) <= 2 * rate_limits[t].calls_per_minute

C5_TwiceTheCap ==
    \E t \in DOMAIN rate_limits :
        /\ Len(recent[t]) = 2 * rate_limits[t].calls_per_minute
        /\ InWindow(t) = rate_limits[t].calls_per_minute
        /\ now - recent[t][1] < 60

\* the client was handed the body the upstream server sent
ReturnedUpstreamBody == last.sent /\ last.up.arrived /\ last.body = last.up.body

\* C6. The upstream body of a tools/call reaches the client only if the
\* detector was asked about exactly that body text and answered clean; on
\* an injection verdict or a detector failure the body is withheld.
C6_OnlyCleanBodiesReturned ==
    /\ ReturnedUpstreamBody =>
           (last.asked /\ last.text = last.up.body /\ last.verdict = "clean")
    /\ (last.asked /\ last.verdict # "clean") => last.body # last.up.body

C6_CleanBodyReturned ==
    /\ ReturnedUpstreamBody
    /\ last.verdict = "clean"
    /\ last.text = last.body

\* the response is a frame whose JSON-RPC result is one text block with the
\* error flag set, and carries id
SafeResponse(id) ==
    /\ last.body.payload.wellformed
    /\ last.body.payload.value.id = id
    /\ Len(last.body.payload.value.result.content) = 1
    /\ last.body.payload.value.result.content[1].type = "text"
    /\ last.body.payload.value.result.isError

\* the upstream answer is an 'event: message' / 'data: <json>' frame (with
\* either line ending) whose JSON-RPC message carries the request's id
UpstreamSentFrame ==
    /\ last.up.arrived
    /\ last.up.body.utf8
    /\ last.up.body.head \in {<<EV, CR, LF, DATA>>, <<EV, LF, DATA>>}
    /\ last.up.body.payload.wellformed
    /\ last.up.body.payload.value.id = last.id

\* C7 as stated (for upstream answers that are frames carrying the request's
\* id). On an injection verdict the client gets the inbound id and a result
\* with a single text block and the error flag set.
C7_InjectionGetsSafePayload ==
    (last.asked /\ last.verdict = "injection" /\ UpstreamSentFrame) =>
        SafeResponse(last.id)

\* C8 as stated. On an injection verdict for a body that does not start with
\* the expected prefix, the client gets a safe payload that describes an
\* unrecognized format, not an internal error.
C8_UnrecognizedFormatGetsSafePayload ==
    (last.asked /\ last.verdict = "injection" /\ ~HasExpectedPrefix(last.up.body)) =>
        /\ last.status # 500
        /\ SafeResponse(last.body.payload.value.id)
        /\ last.body.payload.value.result.content[1].text = FormatText

\* request r gets the return of client.request and completes in this step
Replies(r) == reqs[r].pc = "upstream" /\ reqs'[r].pc = "idle"

\* C9. On a clean verdict the client receives the upstream status and body
\* unchanged, and the usage counter of the called tool, and of no other
\* tool, goes up by exactly one.
C9_CleanForwardedAndCounted ==
    [][\A r \in Reqs :
         (Replies(r) /\ last'.verdict = "clean") =>
             /\ last'.status = last'.up.status
             /\ last'.body = last'.up.body
             /\ tool_usage_counts' =
                    [tool_usage_counts EXCEPT ![reqs[r].tool] = @ + 1]]_vars

C9_CleanNon200Counted ==
    /\ last.verdict = "clean"
    /\ last.up.status = 500
    /\ last.status = 500
    /\ last.body = last.up.body
    /\ tool_usage_counts[last.tool] = 1

\* C10. A tools/call that ends as forbidden (403), rate limited (429) or
\* injection-filtered changes no usage counter: none of its steps (arrival,
\* gate, filtered reply) changes tool_usage_counts.
C10_RejectedNeverCounted ==
    [][\A r \in Reqs :
         (/\ reqs'[r] # reqs[r]
          /\ \/ ~Replies(r)
             \/ last'.verdict = "injection") =>
             tool_usage_counts' = tool_usage_counts]_vars

C10_FilteredNotCounted ==
    /\ last.verdict = "injection"
    /\ last.status = 200
    /\ last.body # last.up.body
    /\ tool_usage_counts[last.tool] = 0

\* C11 as stated. A usage counter changes only by going up by one, and only
\* in the step in which a tools/call for that tool gets an upstream response
\* and a clean verdict: no administrative operation and no other step of a
\* request changes it (so it never decreases and never exceeds the number of
\* clean round trips).
C11_CountedOnlyAfterCleanRoundTrip ==
    [][\A t \in ToolNames :
         tool_usage_counts'[t] # tool_usage_counts[t] =>
             /\ tool_usage_counts'[t] = tool_usage_counts[t] + 1
             /\ \E r \in Reqs :
                    /\ Replies(r)
                    /\ reqs[r].tool = t
                    /\ last'.up.arrived
                    /\ last'.verdict = "clean"]_vars

\* the upstream answer to a tools/list is an 'event: message' / 'data: <json>'
\* frame whose JSON-RPC result carries a tool list
UpstreamSentToolList ==
    /\ last.route = "tools/list"
    /\ last.up.arrived
    /\ last.up.body.utf8
    /\ last.up.body.head \in {<<EV, CR, LF, DATA>>, <<EV, LF, DATA>>}
    /\ last.up.body.payload.wellformed
    /\ "tools" \in DOMAIN last.up.body.payload.value.result

\* C12. The tools/list response holds exactly the upstream tools whose name
\* is not blocked, in upstream order, whatever the allow-list holds.
C12_ListHidesBlockedOnly ==
    UpstreamSentToolList =>
        /\ last.body.payload.wellformed
        /\ last.body.payload.value.result.tools =
               SelectSeq(last.up.body.payload.value.result.tools,
                         LAMBDA tool : tool.name \notin blocked_tools)

C12_AllowListIgnored ==
    /\ UpstreamSentToolList
    /\ blocked_tools = {"t2"}
    /\ allowed_tools = {"t1"}
    /\ last.up.body.payload.value.result.tools = <<Tool("t1"), Tool("t2"), Tool("t3")>>
    /\ last.body.payload.value.result.tools = <<Tool("t1"), Tool("t3")>>

\* C13 as stated. The arguments in the body sent upstream for a tools/call
\* are the sanitized arguments (the handler's tool_args after the
\* sanitization step).
C13_SanitizedArgumentsForwarded ==
    \A r \in Reqs :
        (reqs[r].pc = "upstream" /\ reqs[r].route = "tools/call") =>
            Arguments(reqs[r].content) = reqs[r].tool_args

\* every text token some denylist pattern matches
DangerousTokens == UNION {Matches(dangerous_patterns[n]) : n \in DOMAIN dangerous_patterns}

\* the tree with every denylist match in every string leaf, at any depth and
\* in any container, replaced by the sentinel, and nothing else changed
RECURSIVE BlockedEverywhere(_)
BlockedEverywhere(value) ==
    IF value.kind = "str"
    THEN [value EXCEPT !.text =
             [i \in DOMAIN value.text |->
                 IF value.text[i] \in DangerousTokens THEN BLOCKED ELSE value.text[i]]]
    ELSE [value EXCEPT !.kids =
             [i \in DOMAIN value.kids |->
                 KV(value.kids[i].key, BlockedEverywhere(value.kids[i].val))]]

\* C14 as stated. The sanitized arguments of a tools/call are its arguments
\* with every denylist match in every string leaf replaced by [BLOCKED]:
\* in values of nested objects, in string elements of arrays and in arrays
\* nested in arrays; keys, non-string leaves and the shape are unchanged.
C14_EveryStringLeafSanitized ==
    \A r \in Reqs :
        (reqs[r].pc = "upstream" /\ reqs[r].route = "tools/call") =>
            reqs[r].tool_args = BlockedEverywhere(Arguments(reqs[r].body))

\* request r, a tools/call naming a tool, passes the allow/block check and
\* the rate-limit check in this step (its admission is noted)
PassesGate(r) ==
    /\ reqs[r].pc = "reading"
    /\ reqs'[r].pc # "reading"
    /\ reqs[r].body.json = "object"
    /\ reqs[r].body.method = "tools/call"
    /\ reqs[r].body.params
    /\ session
    /\ is_tool_allowed(reqs[r].tool)
    /\ Len(recent'[reqs[r].tool]) = Len(recent[reqs[r].tool]) + 1

\* C15 as stated. A tools/call that passes the allow/block check and the
\* rate-limit check is forwarded upstream, whatever its arguments value is.
C15_SanitizationNeverBlocks ==
    [][\A r \in Reqs : PassesGate(r) => reqs'[r].pc = "upstream"]_vars

\* the handler the specification names for a method
RouteByMethod(method) ==
    CASE method = "initialize" -> "initialize"
      [] method = "tools/list" -> "tools/list"
      [] method = "tools/call" -> "tools/call"
      [] OTHER -> "default"

\* C16. The handler that serves a request (a JSON object) is determined by
\* its top-level method alone: initialize, tools/list and tools/call get their
\* own handler, every other method and an absent method get the generic
\* passthrough, whatever the rest of the body, the path and the policy are.
C16_RoutesOnMethodOnly ==
    /\ \A r \in Reqs :
           reqs[r].pc = "upstream" => reqs[r].route = RouteByMethod(reqs[r].body.method)
    /\ (~Delivered /\ last.inbound.json = "object") =>
           last.route = RouteByMethod(last.inbound.method)

C16_AbsentMethodPassedThrough ==
    /\ last.inbound.json = "object"
    /\ last.inbound.method = NoMethod
    /\ last.route = "default"
    /\ last.sent
    /\ blocked_tools # {}

\* C17 as stated. A body that is not a JSON object (an array, a scalar, not
\* JSON) is forwarded upstream as it came and the upstream response is
\* returned.
C17_NonConformingPassedThrough ==
    (~Delivered /\ last.inbound.json # "object") =>
        /\ last.sent
        /\ last.content = last.inbound
        /\ last.up.arrived => (last.status = last.up.status /\ last.body = last.up.body)

\* request r carries a method other than tools/list and tools/call
PassthroughMethod(r) ==
    reqs[r].body.json = "object" /\ reqs[r].body.method \notin {"tools/list", "tools/call"}

\* C18. For a request with a method other than tools/list and tools/call,
\* the body sent upstream is the inbound body, the status and body returned
\* are those of the upstream response, and no step of the request changes the
\* blocked and allowed sets, the rate-limit windows or the usage counters.
C18_PassthroughIsFaithful ==
    [][\A r \in Reqs :
         (PassthroughMethod(r) /\ reqs'[r] # reqs[r] /\ reqs[r].pc # "idle") =>
             /\ UNCHANGED <<blocked_tools, allowed_tools, rate_limits, tool_usage_counts>>
             /\ reqs'[r].pc = "upstream" => reqs'[r].content = reqs[r].body
             /\ (reqs[r].pc = "upstream" /\ last'.up.arrived) =>
                    /\ last'.content = reqs[r].body
                    /\ last'.status = last'.up.status
                    /\ last'.body = last'.up.body]_vars

C18_UpstreamErrorPassedOn ==
    /\ last.route = "default"
    /\ last.up.arrived
    /\ last.up.status = 500
    /\ last.status = 500
    /\ last.body = last.up.body
    /\ last.content = last.inbound

\* the response is an error raised by the proxy itself
ProxyError == last.body.payload.value.detail # ""

\* C19. No response carries a Location header in any letter case, and a
\* response built from an upstream response (passthrough, filtered tools/list,
\* clean or injection-blocked tools/call) keeps every other upstream header.
C19_LocationStripped ==
    /\ \A name \in last.headers : Lower(name) # "location"
    /\ (last.sent /\ last.up.arrived /\ ~ProxyError) =>
           \A name \in last.up.headers :
               Lower(name) # "location" => \E kept \in last.headers : Lower(kept) = Lower(name)

C19_UpperCaseLocationStripped ==
    /\ last.verdict = "injection"
    /\ last.up.headers = {"LOCATION", "X-Up"}
    /\ last.headers = {"x-up"}
    /\ ~ProxyError

\* the path contributes no segment: it is empty or made of slashes
NoSegment(path) == \A i \in DOMAIN path : path[i] = SLASH

\* C20 as stated. The upstream URL of a forwarded request holds no double
\* slash, and does not end with a slash when the inbound path contributes no
\* segment.
C20_JoinedByOneSlash ==
    \A r \in Reqs :
        reqs[r].pc = "upstream" =>
            LET url == reqs[r].url
            IN  /\ \A i \in 1..(Len(url) - 1) : ~(url[i] = SLASH /\ url[i + 1] = SLASH)
                /\ NoSegment(reqs[r].path) => url[Len(url)] # SLASH

\* C21. Envelope round trip: for every JSON-RPC object m decoded from an
\* upstream frame, the canonical encoding of m decodes (first line starting
\* with 'data: ') to m again; in particular the frame the proxy returns for a
\* tools/list decodes to the object it encoded.
C21_EnvelopeRoundTrip ==
    /\ (last.up.arrived /\ last.up.body.utf8 /\ decode_data_line(last.up.body).ok) =>
           LET m == decode_data_line(last.up.body).value
           IN  decode_data_line(encode_frame(m)) = [ok |-> TRUE, value |-> m]
    /\ (UpstreamSentToolList /\ ~ProxyError) =>
           /\ decode_data_line(last.body).ok
           /\ decode_data_line(last.body).value.id = last.up.body.payload.value.id

C21_CrlfFrameReencoded ==
    /\ UpstreamSentToolList
    /\ last.up.body.head = <<EV, CR, LF, DATA>>
    /\ last.body.head = <<EV, LF, DATA>>
    /\ decode_data_line(last.body).ok
    /\ decode_data_line(last.body).value.result.tools # <<>>
    /\ decode_data_line(last.body).value.id = last.id

\* the upstream answer to a tools/list has no line beginning with 'data: ',
\* or its payload is not JSON, or the payload has no result.tools
MalformedToolList ==
    /\ ~Delivered
    /\ last.route = "tools/list"
    /\ last.up.arrived
    /\ \/ \A i \in DOMAIN last.up.body.head : last.up.body.head[i] # DATA
       \/ ~last.up.body.payload.wellformed
       \/ "tools" \notin DOMAIN last.up.body.payload.value.result

\* C22. A malformed upstream tools/list response fails closed: the client
\* gets an error response (500) raised by the proxy, never the upstream body.
C22_MalformedListFailsClosed ==
    MalformedToolList =>
        /\ last.status = 500
        /\ ProxyError
        /\ last.body # last.up.body
        /\ "tools" \notin DOMAIN last.body.payload.value.result

C22_NoDataLineRejected ==
    /\ MalformedToolList
    /\ last.up.body.utf8
    /\ last.up.body.payload.wellformed
    /\ "tools" \in DOMAIN last.up.body.payload.value.result
    /\ blocked_tools = {"t1"}
    /\ last.status = 500

\* a response a client can read: an error raised by the proxy has an error
\* status and a detail; any other response is built from an upstream response
\* that arrived and carries its status
WellFormedResponse(l) ==
    /\ l # NoLast
    /\ l.status \in {200, 403, 429, 500, 503}
    /\ IF l.body.payload.value.detail # ""
       THEN l.status \in {403, 429, 500, 503}
       ELSE l.sent /\ l.up.arrived /\ l.status = l.up.status

Ends(r) == reqs[r].pc # "idle" /\ reqs'[r].pc = "idle"

\* C23. Every request, whatever step fails, ends with exactly one well-formed
\* response to its caller: a request that ends hands over one response for its
\* own inbound body, a response is handed over only by a request that ends, and
\* every request that was received does end, so further requests complete.
C23_EveryRequestAnswered ==
    /\ [][\A r \in Reqs :
            Ends(r) => /\ last = NoLast
                       /\ WellFormedResponse(last')
                       /\ last'.inbound = reqs[r].body]_vars
    /\ [][Cardinality({r \in Reqs : Ends(r)}) <= 1]_vars
    /\ [][(last' # last /\ last' # NoLast) => \E r \in Reqs : Ends(r)]_vars
    /\ \A r \in Reqs : (reqs[r].pc # "idle") ~> (reqs[r].pc = "idle")
    /\ []<>(Quiet /\ Delivered)

\* a call completes cleanly after an earlier admitted call of the same tool failed
C23_CompletesAfterFailure ==
    /\ ~Delivered
    /\ last.verdict = "clean"
    /\ last.status = 200
    /\ Len(recent[last.tool]) = 2
    /\ tool_usage_counts[last.tool] = 1

\* C24. Upstream failures are never retried: a request issues at most one
\* upstream call; whatever the call gives, the handler's next step ends the
\* request, and when the call failed with a transport error the response is
\* an internal error (500) and no usage counter has moved.
C24_NoRetry ==
    /\ [](\A r \in Reqs : reqs[r].attempts <= 1)
    /\ [][\A r \in Reqs :
            (reqs[r].pc = "upstream" /\ reqs'[r] # reqs[r]) =>
                /\ Ends(r)
                /\ last'.attempts = 1
                /\ ~last'.up.arrived =>
                       /\ last'.status = 500
                       /\ last'.body.payload.value.detail # ""
                       /\ tool_usage_counts' = tool_usage_counts]_vars

C24_ToolCallTransportError ==
    /\ ~Delivered
    /\ last.route = "tools/call"
    /\ last.gate = "passed"
    /\ last.sent
    /\ ~last.up.arrived
    /\ last.attempts = 1
    /\ last.status = 500
    /\ Len(recent[last.tool]) = 1
    /\ tool_usage_counts[last.tool] = 0

\* C25. A tools/call suspends at the Detector invocation, so that steps of
\* other requests can run before the invocation returns: the step that takes
\* the upstream response and hands its text to the Detector is not the step
\* that ends the request with the verdict applied.
C25_SuspendsAtDetector ==
    [][\A r \in Reqs :
         (reqs[r].pc = "upstream" /\ reqs[r].route = "tools/call" /\ Ends(r)) =>
             ~last'.asked]_vars

\* C26. Rate-limit windows of different tools are independent: a rate-limit
\* check for tool t, whether it admits, rejects or resets, leaves the entry
\* of every other tool unchanged, and it rejects only when t's own count has
\* reached t's own cap inside t's own window.
C26_WindowsIndependent ==
    [][\A r \in Reqs :
         ChecksRate(r) =>
             LET t == reqs[r].tool
             IN  /\ \A u \in DOMAIN rate_limits \ {t} :
                        /\ u \in DOMAIN rate_limits'
                        /\ rate_limits'[u] = rate_limits[u]
                 /\ ~Admitted(r) =>
                        /\ Limit(t).call_count >= Limit(t).calls_per_minute
                        /\ now - Limit(t).last_reset < Window]_vars

\* t2 is admitted at second 30 while t1's budget of the same window is used up
C26_OtherToolAdmitted ==
    /\ now = TickStep
    /\ rate_limits["t1"] = [calls_per_minute |-> 1, last_reset |-> 0, call_count |-> 1]
    /\ recent["t1"] = <<0>>
    /\ recent["t2"] = <<TickStep>>
    /\ rate_limits["t2"].call_count = 1
    /\ \E r \in Reqs : reqs[r].pc = "upstream" /\ reqs[r].tool = "t2"

\* C27 (as stated). A toggle that runs while a request is in flight comes
\* between two policy reads of that request: a request that read the blocked
\* and allowed sets, and ends after a toggle has changed them, has observed
\* two different values.
C27_RacingToggleSeenTwice ==
    [][\A r \in Reqs :
         (Ends(r) /\ reqs[r].seen # {} /\ reqs[r].seen # PolicyRead) =>
             Cardinality(last'.seen) >= 2]_vars

\* C27 (amended). All policy reads of one request happen in one handler step
\* (the gate of a tools/call, the filter of a tools/list), so no request
\* observes two different values of the blocked and allowed sets; a toggle can
\* run while the request is in flight, and a request that has read the policy
\* does not read it again: it ends with the value it read at its gate.
C27_OneSnapshotPerRequest ==
    /\ [](\A r \in Reqs : Cardinality(reqs[r].seen) <= 1)
    /\ [](Cardinality(last.seen) <= 1)
    /\ [][\A r \in Reqs : (Ends(r) /\ reqs[r].seen # {}) => last'.seen = reqs[r].seen]_vars

\* a call admitted at its gate is answered after its tool has been blocked
C27_ToggleWhileInFlight ==
    /\ ~Delivered
    /\ last.route = "tools/call"
    /\ last.gate = "passed"
    /\ last.sent
    /\ last.tool \in blocked_tools
    /\ last.seen = {<<{}, {}>>}
    /\ last.status = 200

\* some request makes its rate-limit check for tool t in this step
CheckedNow(t) == \E r \in Reqs : ChecksRate(r) /\ reqs[r].tool = t

\* C28. Window reset is lazy and happens only inside the rate-limit check:
\* a step that is not a check for t, a step of the clock included, leaves t's
\* window as it is; a check less than 60 s after the window start keeps the
\* window start and never lowers the count; a check 60 s or more after it
\* (exactly 60 included) restarts the window at now with the count at 0 before
\* the cap is evaluated, so the call is admitted and the count is 1.
C28_LazyReset ==
    [][\A t \in DOMAIN rate_limits :
         IF ~CheckedNow(t)
         THEN t \in DOMAIN rate_limits' /\ rate_limits'[t] = rate_limits[t]
         ELSE IF now - rate_limits[t].last_reset < Window
         THEN /\ rate_limits'[t].last_reset = rate_limits[t].last_reset
              /\ rate_limits'[t].call_count >= rate_limits[t].call_count
         ELSE /\ rate_limits'[t].last_reset = now
              /\ rate_limits'[t].call_count = 1
              /\ \E r \in Reqs : ChecksRate(r) /\ reqs[r].tool = t /\ Admitted(r)]_vars

\* a window started at 0 and used up is restarted by a check at second 60
C28_ResetAtExactlySixty ==
    \E t \in DOMAIN rate_limits :
        /\ now = Window
        /\ rate_limits[t] = [calls_per_minute |-> 1, last_reset |-> Window, call_count |-> 1]
        /\ tool_usage_counts[t] = 1
        /\ recent[t] = <<Window>>

\* C29. The injection path of tools/call recognizes every upstream frame the
\* tools/list decoder accepts, the proxy's own canonical encoding of such a
\* frame included, and recovers the same id from it.
C29_SameCodecOnInjectionPath ==
    (last.asked /\ last.verdict = "injection" /\ decode_data_line(last.up.body).ok) =>
        LET m == decode_data_line(last.up.body).value
        IN  /\ HasExpectedPrefix(last.up.body)
            /\ LoadsAfterPrefix(last.up.body) = [ok |-> TRUE, value |-> m]
            /\ HasExpectedPrefix(encode_frame(m))
            /\ LoadsAfterPrefix(encode_frame(m)) = [ok |-> TRUE, value |-> m]

\* C30. For every forwarded request, whatever its method, the upstream URL is
\* the configured base joined with the inbound path of the request: the base
\* without trailing slashes, one slash, and the path without leading slashes
\* (for a path without a segment, the base with or without that slash).
C30_UrlJoinsInboundPath ==
    \A r \in Reqs :
        reqs[r].pc = "upstream" =>
            IF NoSegment(reqs[r].path)
            THEN reqs[r].url \in {rstrip(target_server_url),
                                  rstrip(target_server_url) \o <<SLASH>>}
            ELSE reqs[r].url = rstrip(target_server_url) \o <<SLASH>> \o lstrip(reqs[r].path)

\* request r, a tools/call that names its tool, takes its gate step
DecidesCall(r) ==
    /\ reqs[r].pc = "reading"
    /\ reqs'[r].pc # "reading"
    /\ Dispatch(reqs[r].body) = "tools/call"
    /\ reqs[r].body.params

\* C31. The policy decision of a tools/call depends only on the tool name and
\* the policy state: a call for a tool that is not allowed is answered
\* forbidden (403) and a call over its cap is answered rate-limited (429),
\* whether or not the startup handshake has set the session and the catalog.
C31_DecisionIgnoresHandshake ==
    [][\A r \in Reqs :
         DecidesCall(r) =>
             LET t == reqs[r].tool
             IN  /\ ~is_tool_allowed(t) => last'.status = 403
                 /\ (is_tool_allowed(t) /\ ~check_rate_limit(Limit(t), now).ok) =>
                        last'.status = 429]_vars

\* C32. PromptSanitizer.check falls back to the rule-based verdict: when no
\* classifier is loaded, or when the classification raises, check does not
\* raise and returns what the rule-based check gives for the text (a verdict
\* with is_injection, method 'rule-based' and a confidence).
C32_FallsBackToRules ==
    (detection.called /\ (detection.classifier = "none" \/ detection.ml.raises)) =>
        /\ ~detection.result.raised
        /\ detection.result = rule_based_check(detection.text)
        /\ detection.result.method = "rule-based"

\* C33. Starting from empty sets, after any sequence of toggles the blocked
\* set and the allowed set are disjoint: every change of the sets is an
\* enable (the tool leaves blocked and joins allowed) or a disable (the tool
\* leaves allowed and joins blocked).
C33_SetsDisjoint ==
    /\ [](blocked_tools \cap allowed_tools = {})
    /\ [][(blocked_tools' # blocked_tools \/ allowed_tools' # allowed_tools) =>
              \E t \in ProbeNames :
                  \/ /\ blocked_tools' = blocked_tools \ {t}
                     /\ allowed_tools' = allowed_tools \cup {t}
                  \/ /\ allowed_tools' = allowed_tools \ {t}
                     /\ blocked_tools' = blocked_tools \cup {t}]_vars

\* t1 was enabled, then disabled, while t2 stays enabled
C33_DisabledAfterEnabled ==
    /\ nevents = 3
    /\ blocked_tools = {"t1"}
    /\ allowed_tools = {"t2"}
    /\ Quiet

\* C34. A toggle of tool t changes the gate decision of t only: for every
\* other tool u (one the toggle moved into or out of neither set),
\* is_tool_allowed(u) is the same before and after the toggle, also when the
\* allowed set was empty before.
C34_ToggleLeavesOtherTools ==
    [][\A u \in ProbeNames :
         (/\ blocked_tools' # blocked_tools \/ allowed_tools' # allowed_tools
          /\ (u \in blocked_tools') = (u \in blocked_tools)
          /\ (u \in allowed_tools') = (u \in allowed_tools)) =>
             is_allowed_in(u, blocked_tools', allowed_tools') =
                 is_allowed_in(u, blocked_tools, allowed_tools)]_vars

\* C35. The 'enabled' value that GET /api/tools reports for a catalog tool
\* equals the gate's decision is_tool_allowed for that tool, in every policy
\* state; the list has one entry per catalog tool.
C35_StatusEqualsGate ==
    admin.op = "tools" =>
        /\ Len(admin.tools) = Len(available_tools)
        /\ \A i \in DOMAIN admin.tools :
               /\ admin.tools[i].name = available_tools[i]
               /\ admin.tools[i].enabled = is_tool_allowed(admin.tools[i].name)

\* a tool that is not blocked is reported disabled because the allowed set
\* holds other tools only, and the gate says the same
C35_DisabledByAllowList ==
    /\ admin.op = "tools"
    /\ blocked_tools = {"t2"}
    /\ allowed_tools = {"t2", "t3"}
    /\ admin.tools[1] = [name |-> "t1", enabled |-> FALSE, usage_count |-> 0,
                         rate_limit |-> DefaultCap, current_usage |-> 0]
    /\ probe = [tool |-> "t1", allowed |-> FALSE]

\* the gate decision the step of request r leaves behind
GateOutcome(r) == IF Ends(r) THEN last'.gate ELSE reqs'[r].gate

UpdatesRateLimit ==
    /\ nevents' # nevents
    /\ reqs' = reqs
    /\ now' = now
    /\ admin'.op = "update-rate-limit"

\* C37. Every tool's cap stays positive after any sequence of operations.
\* An update succeeds exactly when it names a tool and its limit is not
\* negative; a failed update leaves the rate-limit state unchanged; a
\* successful one stores the limit, or 60 for a missing or zero limit, as
\* the cap of the named tool and changes nothing else.
C37_CapStaysPositive ==
    /\ [](\A t \in DOMAIN rate_limits : rate_limits[t].calls_per_minute > 0)
    /\ [][UpdatesRateLimit =>
              LET t == admin'.tool_name
              IN  /\ admin'.success <=> (t # NoName /\ admin'.asked >= 0)
                  /\ ~admin'.success => rate_limits' = rate_limits
                  /\ admin'.success =>
                         /\ admin'.rate_limit =
                                IF admin'.asked = 0 THEN DefaultCap ELSE admin'.asked
                         /\ rate_limits' =
                                WithLimit(t, [Limit(t) EXCEPT
                                                 !.calls_per_minute = admin'.rate_limit])]_vars

\* after a call of t1 was admitted and answered, an update without a limit
\* stored 60 as the cap of t1 and kept the count of its window
C37_ZeroStoredAsDefault ==
    /\ admin.op = "update-rate-limit"
    /\ admin.success
    /\ admin.asked = 0
    /\ admin.tool_name = "t1"
    /\ "t1" \in DOMAIN rate_limits
    /\ rate_limits["t1"].calls_per_minute = DefaultCap
    /\ rate_limits["t1"].call_count = 1
    /\ tool_usage_counts["t1"] = 1

\* C38. A tools/call fails closed when the detector fails: the step that ends
\* a call whose detector invocation raised hands the client a 500 error
\* response that carries an error detail and not the upstream body, and
\* leaves every usage counter as it was.
C38_DetectorFailureFailsClosed ==
    [][\A r \in Reqs :
         (Replies(r) /\ last'.asked /\ last'.verdict = "raise") =>
             /\ last'.status = 500
             /\ last'.body # last'.up.body
             /\ last'.body.payload.value.detail # ""
             /\ tool_usage_counts' = tool_usage_counts]_vars

\* the upstream server answered 200, the detector raised on its body, and the
\* client was answered 500 with the tool's usage counter still at zero
C38_DetectorRaisedOnGoodAnswer ==
    /\ ~Delivered
    /\ last.asked
    /\ last.verdict = "raise"
    /\ last.up.arrived
    /\ last.up.status = 200
    /\ last.text = last.up.body
    /\ last.status = 500
    /\ last.body # last.up.body
    /\ tool_usage_counts[last.tool] = 0

====
